---- MODULE Spec2Model ----
(***************************************************************************)
(* A model of the presets module of the Reolink control client            *)
(* (PresetsModule): the preset/zone pipeline (gotoPreset,                  *)
(* applyZonesForPreset, gotoPresetWithZones, setMasks, setMdZone,          *)
(* setAiZone, setGuard) run against a transport that records every         *)
(* request, and the per-channel capability caches (getChannelAbility,      *)
(* getSupportedAiTypes).                                                   *)
(*                                                                         *)
(* An async method runs atomically from one await to the next: each action *)
(* below is either the entry of a method up to its first await, or the     *)
(* arrival of what an await waits for followed by the code up to the next  *)
(* await (or to the method's return or throw).                             *)
(***************************************************************************)
EXTENDS Integers, Sequences, FiniteSets, TLC

VARIABLES top, call, pc, aiIdx, trace, outcome, devMask,
          abilityCache, aiSupportCache, calls, capLog,
          listN, listReqs, listCall, codec

vars == <<top, call, pc, aiIdx, trace, outcome, devMask,
          abilityCache, aiSupportCache, calls, capLog,
          listN, listReqs, listCall, codec>>

presetVars == <<top, call, pc, aiIdx, trace, outcome, devMask>>

capVars == <<abilityCache, aiSupportCache, calls, capLog>>

listVars == <<listN, listReqs, listCall>>

----------------------------------------------------------------------------
(* Bounds of the model. *)

\* channels are 0..MaxChannel
MaxChannel == 1

\* zones.ai holds at most this many entries
MaxAiEntries == 2

\* grid widths and heights given to setAiZone are 0..MaxDim
MaxDim == 2

\* getSupportedAiTypes is called at most this many times on one instance
MaxCalls == 3

\* at most this many getSupportedAiTypes calls are made when calls overlap
MaxOverlap == 2

\* at most this many getSupportedAiTypes calls are made ahead of a call of
\* another method
MaxCachedCalls == 1

Channels == 0..MaxChannel

----------------------------------------------------------------------------
(* Optional values: an absent (undefined) value is the empty set, a        *)
(* present value x is {x}.                                                 *)

None == {}

Some(x) == {x}

The(o) == CHOOSE x \in o : TRUE

Opt(S) == {None} \cup {Some(x) : x \in S}

----------------------------------------------------------------------------
(* JavaScript values as the transport returns and receives them.  Every    *)
(* value is a record whose field k is its kind; only k and the field of    *)
(* that kind are ever read.                                                *)

JUndef == [k |-> "undefined"]

JNull == [k |-> "null"]

JNum(n) == [k |-> "number", n |-> n]

JBool(b) == [k |-> "boolean", b |-> b]

JStr(s) == [k |-> "string", s |-> s]

\* an object is a function from its keys to its values
JObj(f) == [k |-> "object", f |-> f]

JArr(a) == [k |-> "array", a |-> a]

EmptyObj == JObj([x \in {} |-> JUndef])

\* the keys "0", "1", ... of an array's elements
IdxKey(i) == CASE i = 0 -> "0" [] i = 1 -> "1" [] i = 2 -> "2" [] OTHER -> "3"

\* v?.key
Get(v, key) ==
  IF v.k = "object" /\ key \in DOMAIN v.f THEN v.f[key]
  ELSE IF v.k = "array" /\ \E i \in 1..Len(v.a) : IdxKey(i - 1) = key
       THEN v.a[CHOOSE i \in 1..Len(v.a) : IdxKey(i - 1) = key]
  ELSE JUndef

Nullish(v) == v.k \in {"undefined", "null"}

\* a ?? b
Coalesce(a, b) == IF Nullish(a) THEN b ELSE a

\* the truthiness an if or a && tests
Truthy(v) ==
  CASE v.k = "undefined" -> FALSE
    [] v.k = "null" -> FALSE
    [] v.k = "number" -> v.n # 0
    [] v.k = "boolean" -> v.b
    [] v.k = "string" -> v.s # ""
    [] OTHER -> TRUE

\* typeof v === "object"
TypeofObject(v) == v.k \in {"object", "array", "null"}

\* the own enumerable properties {...v} copies
Spread(v) ==
  IF v.k = "object" THEN v.f
  ELSE IF v.k = "array"
       THEN [key \in {IdxKey(i - 1) : i \in 1..Len(v.a)} |-> Get(v, key)]
  ELSE [x \in {} |-> JUndef]

\* {...a, ...b}: b's properties override a's
Assign(a, b) == b @@ a

----------------------------------------------------------------------------
(* Errors.  type is the class of the thrown value, at the place it was     *)
(* thrown from.                                                            *)

Err(type, at) == [type |-> type, at |-> at]

Pending == [k |-> "pending"]

Resolved == [k |-> "resolved"]

Rejected(e) == [k |-> "rejected", err |-> e]

\* the outcomes of the places a method can be at after a run of its code
Request(r) == [k |-> "req", req |-> r]

Throw(e) == [k |-> "throw", err |-> e]

Return == [k |-> "return"]

\* return v
ReturnValue(v) == [k |-> "return", v |-> v]

----------------------------------------------------------------------------
(* Program constants and pure functions of the presets module.             *)

DEFAULT_SETTLE_MS == 400

SUPPORTED_AI_TYPES == <<"people", "vehicle", "dog_cat", "face">>

\* SUPPORTED_AI_TYPES.includes(t)
IsSupportedAiType(t) ==
  \E i \in 1..Len(SUPPORTED_AI_TYPES) : SUPPORTED_AI_TYPES[i] = t

\* the place of an AI type in the enum
EnumIndex(t) == CHOOSE i \in 1..Len(SUPPORTED_AI_TYPES) : SUPPORTED_AI_TYPES[i] = t

Ok(v) == [ok |-> TRUE, v |-> v]

Fail(e) == [ok |-> FALSE, err |-> e]

\* a buildScope whose cols and rows are exchanged
buildScope_transposed(area) ==
  IF Len(area.bits) # area.width * area.height
  THEN Fail(Err("Error", "buildScope"))
  ELSE Ok(JObj([width |-> JNum(area.width),
                height |-> JNum(area.height),
                cols |-> JNum(area.height),
                rows |-> JNum(area.width),
                table |-> JStr(area.bits)]))

\* buildScope: the wire scope of a grid area, or the size-mismatch error
buildScope(area) ==
  IF Len(area.bits) # area.width * area.height
  THEN Fail(Err("Error", "buildScope"))
  ELSE Ok(JObj([width |-> JNum(area.width),
                height |-> JNum(area.height),
                cols |-> JNum(area.width),
                rows |-> JNum(area.height),
                table |-> JStr(area.bits)]))

\* a decoded grid area
GridArea(width, height, bits) == [width |-> width, height |-> height, bits |-> bits]

\* typeof v !== "string"
NotString(v) == v.k # "string"

\* a normalizeMdScope that tests its fields for presence only: a width or a
\* height of 0 passes
normalizeMdScope_zeroAllowed(scope) ==
  LET width == Coalesce(Get(scope, "cols"), Get(scope, "width"))
      height == Coalesce(Get(scope, "rows"), Get(scope, "height"))
      table == Coalesce(Coalesce(Get(scope, "table"), Get(scope, "area")),
                        Get(scope, "bits"))
  IN IF Nullish(width) \/ Nullish(height) \/ NotString(table)
     THEN Fail(Err("Error", "normalizeMdScope"))
     ELSE IF Len(table.s) # width.n * height.n
          THEN Fail(Err("Error", "normalizeMdScope"))
     ELSE Ok(GridArea(width.n, height.n, table.s))

\* normalizeMdScope: the grid area of a wire scope, or the error it throws
normalizeMdScope(scope) ==
  LET width == Coalesce(Get(scope, "cols"), Get(scope, "width"))
      height == Coalesce(Get(scope, "rows"), Get(scope, "height"))
      table == Coalesce(Coalesce(Get(scope, "table"), Get(scope, "area")),
                        Get(scope, "bits"))
  IN IF ~Truthy(width) \/ ~Truthy(height) \/ NotString(table)
     THEN Fail(Err("Error", "normalizeMdScope"))
     ELSE IF Len(table.s) # width.n * height.n
          THEN Fail(Err("Error", "normalizeMdScope"))
     ELSE Ok(GridArea(width.n, height.n, table.s))

\* a normalizeAiArea without the size check
normalizeAiArea_anyLength(payload) ==
  LET width == Coalesce(Get(payload, "width"), Get(payload, "cols"))
      height == Coalesce(Get(payload, "height"), Get(payload, "rows"))
      bits == Coalesce(Coalesce(Get(payload, "area"), Get(payload, "table")),
                       Get(payload, "bits"))
  IN IF ~Truthy(width) \/ ~Truthy(height) \/ NotString(bits)
     THEN Fail(Err("Error", "normalizeAiArea"))
     ELSE Ok(GridArea(width.n, height.n, bits.s))

\* normalizeAiArea: the grid area of an AI area payload, or the error it throws
normalizeAiArea(payload) ==
  LET width == Coalesce(Get(payload, "width"), Get(payload, "cols"))
      height == Coalesce(Get(payload, "height"), Get(payload, "rows"))
      bits == Coalesce(Coalesce(Get(payload, "area"), Get(payload, "table")),
                       Get(payload, "bits"))
  IN IF ~Truthy(width) \/ ~Truthy(height) \/ NotString(bits)
     THEN Fail(Err("Error", "normalizeAiArea"))
     ELSE IF Len(bits.s) # width.n * height.n
          THEN Fail(Err("Error", "normalizeAiArea"))
     ELSE Ok(GridArea(width.n, height.n, bits.s))

\* a transport request: command, payload, and the action argument when one is
\* passed
Req(cmd, payload, action) == [cmd |-> cmd, payload |-> payload, action |-> action]

\* what a request comes back with: a value, or a thrown error
ReplyOk(v) == [ok |-> TRUE, v |-> v]

ReplyFail(type, cmd) == [ok |-> FALSE, err |-> Err(type, cmd)]

\* the transport throws its typed device error, or anything else (a network
\* failure, a JSON parse error)
TransportErrorTypes == {"ReolinkHttpError", "OtherError"}

----------------------------------------------------------------------------
(* The methods, each as the run of its code from a given place to its next *)
(* await: Request(r) (the transport is called with r and awaited), Throw(e) *)
(* or Return, and for applyZonesForPreset the index of the zones.ai entry  *)
(* being written.                                                          *)

\* setMasks(channel, masks, enable)
setMasks(channel, masks, enable) ==
  Request(Req("SetMask",
              JObj([Mask |-> JObj([channel |-> JNum(channel),
                                   enable |-> JNum(enable),
                                   area |-> JArr(masks)])]),
              None))

\* setMdZone up to its merge-read: buildScope may throw before any request
setMdZone(channel, area) ==
  LET scope == buildScope(area)
  IN IF ~scope.ok THEN Throw(scope.err)
     ELSE Request(Req("GetMdAlarm", JObj([channel |-> JNum(channel)]), None))

\* setMdZone's payload with the spreads the other way round: the fetched
\* fields written over the call's
mdAlarmPayload_fetchedWins(channel, area, current) ==
  LET scope == buildScope(area).v
      minimal == JObj([channel |-> JNum(channel),
                       scope |-> scope,
                       table |-> JStr(area.bits)])
      mdAlarm == Coalesce(Get(current, "MdAlarm"), current)
  IN IF Truthy(mdAlarm) /\ TypeofObject(mdAlarm)
     THEN JObj(Assign(Spread(minimal), Spread(mdAlarm)))
     ELSE minimal

\* setMdZone's payload: the minimal one, or the fetched configuration with
\* channel, scope and table written over it
mdAlarmPayload(channel, area, current) ==
  LET scope == buildScope(area).v
      minimal == JObj([channel |-> JNum(channel),
                       scope |-> scope,
                       table |-> JStr(area.bits)])
      mdAlarm == Coalesce(Get(current, "MdAlarm"), current)
  IN IF Truthy(mdAlarm) /\ TypeofObject(mdAlarm)
     THEN JObj(Assign(Spread(mdAlarm),
                      [channel |-> JNum(channel),
                       scope |-> JObj(Assign(Spread(Coalesce(Get(mdAlarm, "scope"),
                                                             EmptyObj)),
                                             Spread(scope))),
                       table |-> JStr(area.bits)]))
     ELSE minimal

\* setMdZone swallowing every failure of its merge-read
setMdZoneAfterRead_absorbsAll(channel, area, reply) ==
  LET payload == IF reply.ok
                 THEN mdAlarmPayload(channel, area, reply.v)
                 ELSE mdAlarmPayload(channel, area, JUndef)
  IN Request(Req("SetMdAlarm", JObj([MdAlarm |-> payload]), None))

\* setMdZone rethrowing every failure of its merge-read
setMdZoneAfterRead_rethrowsAll(channel, area, reply) ==
  IF ~reply.ok THEN Throw(reply.err)
  ELSE Request(Req("SetMdAlarm",
                   JObj([MdAlarm |-> mdAlarmPayload(channel, area, reply.v)]),
                   None))

\* setMdZone from the merge-read's reply on
setMdZoneAfterRead(channel, area, reply) ==
  IF ~reply.ok /\ reply.err.type = "ReolinkHttpError" THEN Throw(reply.err)
  ELSE LET payload == IF reply.ok
                      THEN mdAlarmPayload(channel, area, reply.v)
                      ELSE mdAlarmPayload(channel, area, JUndef)
       IN Request(Req("SetMdAlarm", JObj([MdAlarm |-> payload]), None))

\* setAiZone without its check of the bit string's length
setAiZone_noLengthCheck(channel, ai_type, area) ==
  IF ~IsSupportedAiType(ai_type) THEN Throw(Err("Error", "setAiZone"))
  ELSE Request(Req("SetAlarmArea",
                   JObj([channel |-> JNum(channel),
                         ai_type |-> JStr(ai_type),
                         width |-> JNum(area.width),
                         height |-> JNum(area.height),
                         area |-> JStr(area.bits)]),
                   None))

\* a setAiZone that consults the list stored for the channel and refuses a
\* type that is not in it
setAiZone_cachedTypesOnly(channel, ai_type, area) ==
  IF ~IsSupportedAiType(ai_type) THEN Throw(Err("Error", "setAiZone"))
  ELSE IF /\ channel \in DOMAIN aiSupportCache
          /\ \A i \in 1..Len(aiSupportCache[channel]) : aiSupportCache[channel][i] # ai_type
       THEN Throw(Err("Error", "setAiZone"))
  ELSE IF Len(area.bits) # area.width * area.height
       THEN Throw(Err("Error", "setAiZone"))
  ELSE Request(Req("SetAlarmArea",
                   JObj([channel |-> JNum(channel),
                         ai_type |-> JStr(ai_type),
                         width |-> JNum(area.width),
                         height |-> JNum(area.height),
                         area |-> JStr(area.bits)]),
                   None))

\* setAiZone(channel, ai_type, area)
setAiZone(channel, ai_type, area) ==
  IF ~IsSupportedAiType(ai_type) THEN Throw(Err("Error", "setAiZone"))
  ELSE IF Len(area.bits) # area.width * area.height
       THEN Throw(Err("Error", "setAiZone"))
  ELSE Request(Req("SetAlarmArea",
                   JObj([channel |-> JNum(channel),
                         ai_type |-> JStr(ai_type),
                         width |-> JNum(area.width),
                         height |-> JNum(area.height),
                         area |-> JStr(area.bits)]),
                   None))

\* the entries of zones.ai sorted into the enum's order
aiEntries_enumOrder(zones) ==
  LET es == The(zones.ai)
  IN CHOOSE s \in [1..Len(es) -> {es[i] : i \in 1..Len(es)}] :
       /\ \A i \in 1..Len(es) : \E j \in 1..Len(es) : s[j] = es[i]
       /\ \A i, j \in 1..Len(es) : i < j => EnumIndex(s[i].type) < EnumIndex(s[j].type)

\* Object.entries(zones.ai): the entries in the order their keys were inserted
aiEntries(zones) == The(zones.ai)

\* the first entry at or after index i that has an area (if (!area) continue),
\* or Len + 1
nextAiEntry(entries, i) ==
  IF \E j \in i..Len(entries) : entries[j].area # None
  THEN CHOOSE j \in i..Len(entries) :
         /\ entries[j].area # None
         /\ \A l \in i..(j - 1) : entries[l].area = None
  ELSE Len(entries) + 1

\* applyZonesForPreset's loop over zones.ai, from entry i on
applyAi(channel, zones, i) ==
  IF zones.ai = None THEN Return
  ELSE LET entries == aiEntries(zones)
           j == nextAiEntry(entries, i)
       IN IF j > Len(entries) THEN Return
          ELSE setAiZone(channel, entries[j].type, The(entries[j].area))
               @@ [idx |-> j]

\* applyZonesForPreset from if (zones.md) on
applyMd(channel, zones) ==
  IF zones.md # None THEN setMdZone(channel, The(zones.md))
  ELSE applyAi(channel, zones, 1)

\* applyZonesForPreset going to the motion zone without the mask write
applyZonesForPreset_skipsMasks(channel, zones) == applyMd(channel, zones)

\* an applyZonesForPreset that enables the mask feature for any list
applyZonesForPreset_alwaysEnables(channel, zones) ==
  IF zones.masks # None
  THEN setMasks(channel, The(zones.masks), 1)
  ELSE applyMd(channel, zones)

\* applyZonesForPreset from its entry
applyZonesForPreset(channel, zones) ==
  IF zones.masks # None
  THEN setMasks(channel, The(zones.masks),
                IF Len(The(zones.masks)) > 0 THEN 1 ELSE 0)
  ELSE applyMd(channel, zones)

\* opts.speed held under 64 only: Math.min(64, opts.speed)
clampSpeed_upperOnly(opts) ==
  IF opts.speed # None
  THEN Some(IF The(opts.speed) > 64 THEN 64 ELSE The(opts.speed))
  ELSE None

\* opts.speed clamped
clampSpeed(opts) ==
  IF opts.speed # None
  THEN Some(IF The(opts.speed) > 64 THEN 64
            ELSE IF The(opts.speed) < 1 THEN 1 ELSE The(opts.speed))
  ELSE None

\* opts.settleMs || DEFAULT_SETTLE_MS: a settleMs of 0 taken for an absent one
settleOf_or(opts) ==
  IF opts.settleMs # None /\ The(opts.settleMs) # 0 THEN The(opts.settleMs)
  ELSE DEFAULT_SETTLE_MS

\* opts.settleMs ?? DEFAULT_SETTLE_MS
settleOf(opts) ==
  IF opts.settleMs # None THEN The(opts.settleMs) ELSE DEFAULT_SETTLE_MS

\* gotoPreset up to its await of the move command
gotoPreset(channel, id, opts) ==
  LET speed == clampSpeed(opts)
      base == [channel |-> JNum(channel),
               op |-> JStr("ToPos"),
               cmdStr |-> [k |-> "string", s |-> "ToPos=", id |-> id]]
  IN Request(Req("PtzCtrl",
                 JObj(IF speed # None /\ The(speed) # 0
                      THEN Assign(base, [speed |-> JNum(The(speed))])
                      ELSE base),
                 None))

\* setGuard sending whatever timeout it is given
setGuard_anyTimeout(channel, options) ==
  LET timeout == IF options.timeoutSec # None THEN The(options.timeoutSec) ELSE 60
  IN Request(Req("SetPtzGuard",
                 JObj([PtzGuard |-> JObj([channel |-> JNum(channel),
                                          timeout |-> JNum(timeout)])]),
                 None))

\* setGuard(channel, options)
setGuard(channel, options) ==
  LET timeout == IF options.timeoutSec # None THEN The(options.timeoutSec) ELSE 60
      flag(o) == o # None /\ The(o)
      guard == Assign(Assign(
                 [channel |-> JNum(channel),
                  timeout |-> JNum(timeout),
                  cmdStr |-> JStr(IF flag(options.goToGuardNow) THEN "toPos" ELSE "setPos"),
                  bSaveCurrentPos |-> JNum(IF flag(options.setCurrentAsGuard) THEN 1 ELSE 0)],
                 IF options.enable = None THEN [x \in {} |-> JUndef]
                 ELSE [benable |-> JNum(IF The(options.enable) THEN 1 ELSE 0)]),
                 IF flag(options.setCurrentAsGuard) THEN [bexistPos |-> JNum(1)]
                 ELSE [x \in {} |-> JUndef])
  IN IF timeout # 60 THEN Throw(Err("Error", "setGuard"))
     ELSE Request(Req("SetPtzGuard", JObj([PtzGuard |-> JObj(guard)]), None))

\* getMdZone up to its await of the read
getMdZone(channel) ==
  Request(Req("GetMdAlarm", JObj([channel |-> JNum(channel)]), None))

\* getMdZone from the read's response on
getMdZoneAfterRead(response) ==
  LET mdAlarm == Coalesce(Coalesce(Get(response, "MdAlarm"), Get(response, "Alarm")),
                          response)
      scope == Coalesce(Coalesce(Get(mdAlarm, "scope"), Get(mdAlarm, "Scope")),
                        mdAlarm)
      area == normalizeMdScope(scope)
  IN IF area.ok THEN ReturnValue(area.v) ELSE Throw(area.err)

\* getAiZone up to its await of the read
getAiZone(channel, ai_type) ==
  Request(Req("GetAiAlarm",
              JObj([channel |-> JNum(channel), ai_type |-> JStr(ai_type)]),
              None))

\* getAiZone from the read's response on
getAiZoneAfterRead(response) ==
  LET aiAlarm == Coalesce(Get(response, "AiAlarm"), response)
      scope == Coalesce(Coalesce(Get(aiAlarm, "scope"), Get(aiAlarm, "Scope")),
                        aiAlarm)
      areaPayload == IF Truthy(Get(scope, "area"))
                     THEN JObj([width |-> Get(scope, "width"),
                                height |-> Get(scope, "height"),
                                area |-> Get(scope, "area")])
                     ELSE scope
      area == normalizeAiArea(areaPayload)
  IN IF area.ok THEN ReturnValue(area.v) ELSE Throw(area.err)

\* buildPanorama taking the snapshot whatever maxTiles is
buildPanorama_noCheck(channel, plan) ==
  Request(Req("snapshotToBuffer", JObj([channel |-> JNum(channel)]), None))

\* buildPanorama up to its await of the snapshot
buildPanorama(channel, plan) ==
  LET maxTiles == IF plan.maxTiles # None THEN The(plan.maxTiles) ELSE 16
  IN IF maxTiles <= 0 THEN Throw(Err("Error", "buildPanorama"))
     ELSE Request(Req("snapshotToBuffer", JObj([channel |-> JNum(channel)]), None))

\* a buildPanorama that reports as many tiles as the plan allows
buildPanoramaAfterSnapshot_maxTiles(buffer) ==
  ReturnValue([image |-> buffer,
               tiles |-> IF call.plan.maxTiles # None THEN The(call.plan.maxTiles) ELSE 16])

\* buildPanorama from the snapshot on
buildPanoramaAfterSnapshot(buffer) ==
  ReturnValue([image |-> buffer, tiles |-> 1])

\* setPreset(channel, id, name, enable)
setPreset(channel, id, name, enable) ==
  Request(Req("SetPtzPreset",
              JObj([PtzPreset |->
                JObj(Assign([channel |-> JNum(channel), id |-> JNum(id),
                             name |-> JStr(name)],
                            IF enable = None THEN [x \in {} |-> JUndef]
                            ELSE [enable |-> JNum(IF The(enable) THEN 1 ELSE 0)]))]),
              None))

\* getAlarm(client): client.api("GetAlarm", {})
getAlarm == Request(Req("GetAlarm", EmptyObj, None))

\* a getMdState that asks for the first channel whatever it is given
getMdState_firstChannel(channel) ==
  Request(Req("GetMdState", JObj([channel |-> JNum(0)]), None))

\* getMdState(client, channel): client.api("GetMdState", { channel })
getMdState(channel) ==
  Request(Req("GetMdState", JObj([channel |-> JNum(channel)]), None))

\* return client.api(...): the value the transport resolved with
afterApi(value) == ReturnValue(value)

\* the settle wait of gotoPreset: delay(settleMs) when settleMs > 0
Delay(ms) == [k |-> "delay", ms |-> ms]

\* the await of zonesProvider(presetId)
Provider(id) == [k |-> "provider", id |-> id]

\* the end of gotoPreset: the caller's promise resolves, or
\* gotoPresetWithZones goes on to call the provider
afterGotoPreset(t, c) ==
  IF t = "gotoPresetWithZones" THEN Provider(c.id) ELSE Return

\* gotoPreset returning at the move command's response, without the wait
gotoPresetAfterMove_noSettle(t, c) == afterGotoPreset(t, c)

\* gotoPreset from the move command's response on
gotoPresetAfterMove(t, c) ==
  IF settleOf(c.opts) > 0 THEN Delay(settleOf(c.opts))
  ELSE afterGotoPreset(t, c)

\* gotoPresetWithZones from the provider's result on
gotoPresetWithZonesAfterProvider(c, zones) ==
  IF zones # None THEN applyZonesForPreset(c.channel, The(zones))
  ELSE Return

\* the code after await this.setMasks(...)
afterSetMasks(t, c) ==
  IF t = "setMasks" THEN Return ELSE applyMd(c.channel, The(c.zones))

\* the area setMdZone was called with
mdAreaOf(t, c) == IF t = "setMdZone" THEN c.area ELSE The(The(c.zones).md)

\* the code after await this.setMdZone(...)
afterSetMdZone(t, c) ==
  IF t = "setMdZone" THEN Return ELSE applyAi(c.channel, The(c.zones), 1)

\* a loop over zones.ai that never moves past the entry it wrote
afterSetAiZone_sameEntry(t, c, i) ==
  IF t = "setAiZone" THEN Return ELSE applyAi(c.channel, The(c.zones), i)

\* the code after await this.setAiZone(...): the next turn of the loop
afterSetAiZone(t, c, i) ==
  IF t = "setAiZone" THEN Return ELSE applyAi(c.channel, The(c.zones), i + 1)

----------------------------------------------------------------------------
(* Inputs. *)

GoodArea == [width |-> 2, height |-> 1, bits |-> "01"]

BadArea == [width |-> 2, height |-> 2, bits |-> "01"]

PipelineAreas == {GoodArea, BadArea}

Mask1 == [screen |-> [width |-> 640, height |-> 480],
          block |-> [x |-> 10, y |-> 20, width |-> 100, height |-> 50]]

MaskLists == {<<>>, <<Mask1>>}

AiTypes == {SUPPORTED_AI_TYPES[i] : i \in 1..Len(SUPPORTED_AI_TYPES)}

AiEntry == [type : AiTypes, area : Opt(PipelineAreas)]

\* the entries of a zones.ai object: its keys are distinct
AiEntrySeqs ==
  {s \in UNION {[1..n -> AiEntry] : n \in 0..MaxAiEntries} :
     \A i, j \in 1..Len(s) : i # j => s[i].type # s[j].type}

ZoneBundles == [masks : Opt(MaskLists), md : Opt(PipelineAreas), ai : Opt(AiEntrySeqs)]

MoveOptions == [speed : Opt({-5, 0, 1, 30, 64, 65, 100}), settleMs : Opt({0, 100})]

\* the options gotoPresetWithZones is called with
SettleOptions == {o \in MoveOptions : o.speed = None}

\* the bundles a zonesProvider yields: well-sized areas, or a badly sized
\* motion area with at most a mask list beside it
ProviderBundles ==
  {z \in ZoneBundles :
     /\ z.md = Some(BadArea) => z.ai = None
     /\ z.ai # None => \A i \in 1..Len(The(z.ai)) : The(z.ai)[i].area # Some(BadArea)}

PresetIds == {1, 5}

\* what GetMdAlarm answers: nothing, a primitive, the wrapped configuration
\* with sibling fields and a scope of its own, the bare configuration
MdAlarmValues ==
  << JUndef,
     JNum(0),
     JObj([MdAlarm |-> JObj([channel |-> JNum(7),
                             sens |-> JNum(5),
                             table |-> JStr("1111"),
                             scope |-> JObj([cols |-> JNum(9), extra |-> JNum(1)])])]),
     JObj([sens |-> JNum(3)]) >>

\* a request's possible replies: a value, or a throw of either type
Replies(cmd, values) ==
  {ReplyOk(values[i]) : i \in 1..Len(values)}
    \cup {ReplyFail(ty, cmd) : ty \in TransportErrorTypes}

\* what a write answers
WriteValues == << JObj([rspCode |-> JNum(200)]) >>

----------------------------------------------------------------------------
(* The preset and zone pipeline as a state machine.                        *)
(*   top      the method the caller invoked ("none" before the first call) *)
(*   call     its arguments (and, for gotoPresetWithZones, the zones the   *)
(*            provider yielded)                                            *)
(*   pc       "idle", "done", or what the call awaits: the command of the  *)
(*            request in flight, "delay", "provider"                       *)
(*   aiIdx    the index of the zones.ai entry being written                *)
(*   trace    what the mock transport, timer and provider saw, in order    *)
(*   outcome  of the caller's promise                                      *)
(*   devMask  the Mask the device last stored                              *)

\* carry on with n, the outcome of a run of code, after trace tr
Do(tr, n) ==
  /\ trace' = CASE n.k = "req" -> Append(tr, [e |-> "req", req |-> n.req])
                [] n.k = "delay" -> Append(tr, [e |-> "delayStart", ms |-> n.ms])
                [] n.k = "provider" -> Append(tr, [e |-> "providerCall", id |-> n.id])
                [] OTHER -> tr
  /\ pc' = CASE n.k = "req" -> n.req.cmd
             [] n.k = "delay" -> "delay"
             [] n.k = "provider" -> "provider"
             [] OTHER -> "done"
  /\ outcome' = CASE n.k = "throw" -> Rejected(n.err)
                  [] n.k = "return" -> IF "v" \in DOMAIN n
                                       THEN [k |-> "resolved", v |-> n.v]
                                       ELSE Resolved
                  [] OTHER -> Pending
  /\ aiIdx' = IF "idx" \in DOMAIN n THEN n.idx ELSE 0

\* the reply to the request in flight, as the trace records it
Replied(reply) ==
  Append(trace, IF reply.ok THEN [e |-> "ok", cmd |-> pc, v |-> reply.v]
                ELSE [e |-> "fail", cmd |-> pc, err |-> reply.err])

\* an await inside try {} catch {}: a throw is swallowed and the code goes on
Await_swallowed(reply, n) == Do(Replied(reply), n)

\* an await that answers a throw by issuing the failed request again
Await_retried(reply, n) ==
  Do(Replied(reply), IF reply.ok THEN n ELSE Request(trace[Len(trace)].req))

\* a reply that is a throw rejects the call; otherwise the code goes on with n
Await(reply, n) == Do(Replied(reply), IF reply.ok THEN n ELSE Throw(reply.err))

\* These methods read and write no field of the instance: a behaviour is one
\* call on the constructed instance.
CanCall == pc = "idle"

\* applyZonesForPreset(channel, presetId, zones); presetId is never read
CallApplyZonesForPreset ==
  /\ CanCall
  /\ \E ch \in Channels, z \in ZoneBundles :
       /\ top' = "applyZonesForPreset"
       /\ call' = [channel |-> ch, zones |-> Some(z)]
       /\ Do(<<>>, applyZonesForPreset(ch, z))
  /\ UNCHANGED <<devMask, capVars, listVars, codec>>

CallSetMasks ==
  /\ CanCall
  /\ \E ch \in Channels, m \in MaskLists, en \in {0, 1} :
       /\ top' = "setMasks"
       /\ call' = [channel |-> ch, masks |-> m, enable |-> en]
       /\ Do(<<>>, setMasks(ch, m, en))
  /\ UNCHANGED <<devMask, capVars, listVars, codec>>

CallSetMdZone ==
  /\ CanCall
  /\ \E ch \in Channels, a \in PipelineAreas :
       /\ top' = "setMdZone"
       /\ call' = [channel |-> ch, area |-> a]
       /\ Do(<<>>, setMdZone(ch, a))
  /\ UNCHANGED <<devMask, capVars, listVars, codec>>

CallGotoPreset ==
  /\ CanCall
  /\ \E ch \in Channels, id \in PresetIds, o \in MoveOptions :
       /\ top' = "gotoPreset"
       /\ call' = [channel |-> ch, id |-> id, opts |-> o]
       /\ Do(<<>>, gotoPreset(ch, id, o))
  /\ UNCHANGED <<devMask, capVars, listVars, codec>>

CallGotoPresetWithZones ==
  /\ CanCall
  /\ \E ch \in Channels, id \in PresetIds, o \in SettleOptions :
       /\ top' = "gotoPresetWithZones"
       /\ call' = [channel |-> ch, id |-> id, opts |-> o, zones |-> None]
       /\ Do(<<>>, gotoPreset(ch, id, o))
  /\ UNCHANGED <<devMask, capVars, listVars, codec>>

PtzCtrlReturn ==
  /\ pc = "PtzCtrl"
  /\ \E reply \in Replies("PtzCtrl", WriteValues) :
       Await(reply, gotoPresetAfterMove(top, call))
  /\ UNCHANGED <<top, call, devMask, capVars, listVars, codec>>

\* the settle timer fires
DelayFires ==
  /\ pc = "delay"
  /\ Do(Append(trace, [e |-> "delayEnd"]), afterGotoPreset(top, call))
  /\ UNCHANGED <<top, call, devMask, capVars, listVars, codec>>

\* the provider's promise settles: nothing, a bundle, or a rejection
ProviderReturn ==
  /\ pc = "provider"
  /\ \/ \E z \in Opt(ProviderBundles) :
          /\ call' = [call EXCEPT !.zones = z]
          /\ Do(Append(trace, [e |-> "providerOk"]),
                gotoPresetWithZonesAfterProvider(call, z))
     \/ /\ call' = call
        /\ Do(Append(trace, [e |-> "providerFail"]),
              Throw(Err("ProviderError", "zonesProvider")))
  /\ UNCHANGED <<top, devMask, capVars, listVars, codec>>

SetMaskReturn ==
  /\ pc = "SetMask"
  /\ \E reply \in Replies("SetMask", WriteValues) :
       /\ Await(reply, afterSetMasks(top, call))
       /\ devMask' = IF reply.ok
                     THEN Some(Get(trace[Len(trace)].req.payload, "Mask"))
                     ELSE devMask
  /\ UNCHANGED <<top, call, capVars, listVars, codec>>

GetMdAlarmReturn ==
  /\ pc = "GetMdAlarm"
  /\ top # "getMdZone"
  /\ \E reply \in Replies("GetMdAlarm", MdAlarmValues) :
       Do(Replied(reply),
          setMdZoneAfterRead(call.channel, mdAreaOf(top, call), reply))
  /\ UNCHANGED <<top, call, devMask, capVars, listVars, codec>>

SetMdAlarmReturn ==
  /\ pc = "SetMdAlarm"
  /\ \E reply \in Replies("SetMdAlarm", WriteValues) :
       Await(reply, afterSetMdZone(top, call))
  /\ UNCHANGED <<top, call, devMask, capVars, listVars, codec>>

SetAlarmAreaReturn ==
  /\ pc = "SetAlarmArea"
  /\ \E reply \in Replies("SetAlarmArea", WriteValues) :
       Await(reply, afterSetAiZone(top, call, aiIdx))
  /\ UNCHANGED <<top, call, devMask, capVars, listVars, codec>>

PresetInit ==
  /\ top = "none"
  /\ call = [channel |-> 0]
  /\ pc = "idle"
  /\ aiIdx = 0
  /\ trace = <<>>
  /\ outcome = Pending
  /\ devMask = None

RECURSIVE Alternating(_)
\* the bit string "0101..." of length n
Alternating(n) == IF n = 0 THEN "" ELSE Alternating(n - 1) \o (IF n % 2 = 1 THEN "0" ELSE "1")

RECURSIVE Ones(_)
\* the bit string "11..." of length n
Ones(n) == IF n = 0 THEN "" ELSE Ones(n - 1) \o "1"

\* bit strings of every length a MaxDim grid can have, and one longer
BitStrings == UNION {{Alternating(n), Ones(n)} : n \in 0..(MaxDim * MaxDim + 1)}

\* the areas setAiZone is called with, well-sized or not
AiZoneAreas == [width : 0..MaxDim, height : 0..MaxDim, bits : BitStrings]

\* the ai_type values a caller may pass at run time
AiTypeArgs == AiTypes \cup {"thermal"}

GuardOptions == [enable : Opt(BOOLEAN), timeoutSec : Opt({0, 30, 60, 61}),
                 setCurrentAsGuard : Opt(BOOLEAN), goToGuardNow : Opt(BOOLEAN)]

CallSetAiZone ==
  /\ CanCall
  /\ \E ch \in Channels, ty \in AiTypeArgs, a \in AiZoneAreas :
       /\ top' = "setAiZone"
       /\ call' = [channel |-> ch, ai_type |-> ty, area |-> a]
       /\ Do(<<>>, setAiZone(ch, ty, a))
  /\ UNCHANGED <<devMask, capVars, listVars, codec>>

CallSetGuard ==
  /\ CanCall
  /\ \E ch \in Channels, o \in GuardOptions :
       /\ top' = "setGuard"
       /\ call' = [channel |-> ch, options |-> o]
       /\ Do(<<>>, setGuard(ch, o))
  /\ UNCHANGED <<devMask, capVars, listVars, codec>>

SetPtzGuardReturn ==
  /\ pc = "SetPtzGuard"
  /\ \E reply \in Replies("SetPtzGuard", WriteValues) :
       Await(reply, Return)
  /\ UNCHANGED <<top, call, devMask, capVars, listVars, codec>>

\* GetMdAlarm answers whose scope is a grid: the wrapped scope, a bare scope
\* under other names, a scope of negative sizes whose product is the table's
\* length
GridMdZoneValues ==
  << JObj([MdAlarm |-> JObj([scope |-> JObj([cols |-> JNum(2), rows |-> JNum(1),
                                             table |-> JStr("01")])])]),
     JObj([width |-> JNum(1), height |-> JNum(2), bits |-> JStr("10")]),
     JObj([MdAlarm |-> JObj([scope |-> JObj([cols |-> JNum(-1), rows |-> JNum(-2),
                                             table |-> JStr("11")])])]) >>

\* GetMdAlarm answers whose scope is not a grid: nothing, a table of the wrong
\* length (too short, too long), a zero width (cols 0 beside a width of 2), no
\* height, a zero height, a table that is a number, a table that is an array
MalformedMdZoneValues ==
  << JUndef,
     JObj([Alarm |-> JObj([Scope |-> JObj([width |-> JNum(2), height |-> JNum(2),
                                           area |-> JStr("01")])])]),
     JObj([MdAlarm |-> JObj([scope |-> JObj([cols |-> JNum(1), rows |-> JNum(1),
                                             table |-> JStr("011")])])]),
     JObj([MdAlarm |-> JObj([scope |-> JObj([cols |-> JNum(0), width |-> JNum(2),
                                             rows |-> JNum(1),
                                             table |-> JStr("01")])])]),
     JObj([MdAlarm |-> JObj([scope |-> JObj([cols |-> JNum(2),
                                             table |-> JStr("01")])])]),
     JObj([cols |-> JNum(2), rows |-> JNum(0), table |-> JStr("")]),
     JObj([MdAlarm |-> JObj([scope |-> JObj([cols |-> JNum(1), rows |-> JNum(1),
                                             table |-> JNum(1)])])]),
     JObj([Scope |-> JObj([cols |-> JNum(1), rows |-> JNum(2),
                           table |-> JArr(<<JNum(0), JNum(1)>>)])]) >>

\* what GetMdAlarm answers to getMdZone
MdZoneValues == GridMdZoneValues \o MalformedMdZoneValues

\* GetAiAlarm answers whose scope is a grid: the wrapped scope, a bare payload
\* under other names
GridAiZoneValues ==
  << JObj([AiAlarm |-> JObj([scope |-> JObj([width |-> JNum(2), height |-> JNum(1),
                                             area |-> JStr("01"),
                                             cols |-> JNum(9)])])]),
     JObj([cols |-> JNum(1), rows |-> JNum(2), table |-> JStr("10")]) >>

\* GetAiAlarm answers whose scope is not a grid: null, an area with no width
\* or height beside it, bits of the wrong length (too short, too long), a zero
\* width, no height, an area that is a number, bits that are an array
MalformedAiZoneValues ==
  << JNull,
     JObj([scope |-> JObj([cols |-> JNum(2), rows |-> JNum(1), area |-> JStr("01")])]),
     JObj([AiAlarm |-> JObj([width |-> JNum(2), height |-> JNum(2),
                             bits |-> JStr("01")])]),
     JObj([AiAlarm |-> JObj([scope |-> JObj([width |-> JNum(1), height |-> JNum(1),
                                             area |-> JStr("011")])])]),
     JObj([AiAlarm |-> JObj([scope |-> JObj([width |-> JNum(0), height |-> JNum(2),
                                             area |-> JStr("01")])])]),
     JObj([AiAlarm |-> JObj([scope |-> JObj([width |-> JNum(2),
                                             area |-> JStr("01")])])]),
     JObj([AiAlarm |-> JObj([scope |-> JObj([width |-> JNum(1), height |-> JNum(1),
                                             area |-> JNum(1)])])]),
     JObj([width |-> JNum(1), height |-> JNum(2),
           bits |-> JArr(<<JNum(0), JNum(1)>>)]) >>

\* what GetAiAlarm answers
AiZoneValues == GridAiZoneValues \o MalformedAiZoneValues

\* what snapshotToBuffer answers: the image
SnapshotValues == << JStr("JFIF") >>

\* the plans buildPanorama is called with; only maxTiles is read
PanoramaPlans == [panStep : {0, 30}, tiltStep : {-10, 15}, maxTiles : Opt({-1, 0, 1, 16})]

CallGetMdZone ==
  /\ CanCall
  /\ \E ch \in Channels :
       /\ top' = "getMdZone"
       /\ call' = [channel |-> ch]
       /\ Do(<<>>, getMdZone(ch))
  /\ UNCHANGED <<devMask, capVars, listVars, codec>>

GetMdZoneReturn ==
  /\ pc = "GetMdAlarm"
  /\ top = "getMdZone"
  /\ \E reply \in Replies("GetMdAlarm", MdZoneValues) :
       Await(reply, IF reply.ok THEN getMdZoneAfterRead(reply.v) ELSE Return)
  /\ UNCHANGED <<top, call, devMask, capVars, listVars, codec>>

CallGetAiZone ==
  /\ CanCall
  /\ \E ch \in Channels, ty \in AiTypes :
       /\ top' = "getAiZone"
       /\ call' = [channel |-> ch, ai_type |-> ty]
       /\ Do(<<>>, getAiZone(ch, ty))
  /\ UNCHANGED <<devMask, capVars, listVars, codec>>

GetAiAlarmReturn ==
  /\ pc = "GetAiAlarm"
  /\ \E reply \in Replies("GetAiAlarm", AiZoneValues) :
       Await(reply, IF reply.ok THEN getAiZoneAfterRead(reply.v) ELSE Return)
  /\ UNCHANGED <<top, call, devMask, capVars, listVars, codec>>

CallBuildPanorama ==
  /\ CanCall
  /\ \E ch \in Channels, plan \in PanoramaPlans :
       /\ top' = "buildPanorama"
       /\ call' = [channel |-> ch, plan |-> plan]
       /\ Do(<<>>, buildPanorama(ch, plan))
  /\ UNCHANGED <<devMask, capVars, listVars, codec>>

SnapshotReturn ==
  /\ pc = "snapshotToBuffer"
  /\ \E reply \in Replies("snapshotToBuffer", SnapshotValues) :
       Await(reply, IF reply.ok THEN buildPanoramaAfterSnapshot(reply.v) ELSE Return)
  /\ UNCHANGED <<top, call, devMask, capVars, listVars, codec>>

\* what GetAlarm answers: alarms enabled, alarms disabled, an empty object
AlarmValues ==
  << JObj([Alarm |-> JObj([enable |-> JNum(1), type |-> JStr("motion"),
                           sensitivity |-> JNum(50)])]),
     JObj([Alarm |-> JObj([enable |-> JNum(0)])]),
     EmptyObj >>

\* what GetMdState answers: motion, no motion, a state for another channel
MdStateValues ==
  << JObj([MdState |-> JObj([channel |-> JNum(0), state |-> JNum(1)])]),
     JObj([MdState |-> JObj([channel |-> JNum(0), state |-> JNum(0)])]),
     JObj([MdState |-> JObj([channel |-> JNum(2), state |-> JNum(1)])]) >>

\* the channels getMdState is asked about, one of them not on the device
MdStateChannels == Channels \cup {99}

CallGetAlarm ==
  /\ CanCall
  /\ top' = "getAlarm"
  /\ call' = [channel |-> 0]
  /\ Do(<<>>, getAlarm)
  /\ UNCHANGED <<devMask, capVars, listVars, codec>>

GetAlarmReturn ==
  /\ pc = "GetAlarm"
  /\ \E reply \in Replies("GetAlarm", AlarmValues) :
       Await(reply, IF reply.ok THEN afterApi(reply.v) ELSE Return)
  /\ UNCHANGED <<top, call, devMask, capVars, listVars, codec>>

CallGetMdState ==
  /\ CanCall
  /\ \E ch \in MdStateChannels :
       /\ top' = "getMdState"
       /\ call' = [channel |-> ch]
       /\ Do(<<>>, getMdState(ch))
  /\ UNCHANGED <<devMask, capVars, listVars, codec>>

GetMdStateReturn ==
  /\ pc = "GetMdState"
  /\ \E reply \in Replies("GetMdState", MdStateValues) :
       Await(reply, IF reply.ok THEN afterApi(reply.v) ELSE Return)
  /\ UNCHANGED <<top, call, devMask, capVars, listVars, codec>>

CallSetPreset ==
  /\ CanCall
  /\ \E ch \in Channels, id \in PresetIds, name \in {"Gate"}, en \in Opt(BOOLEAN) :
       /\ top' = "setPreset"
       /\ call' = [channel |-> ch, id |-> id, name |-> name, enable |-> en]
       /\ Do(<<>>, setPreset(ch, id, name, en))
  /\ UNCHANGED <<devMask, capVars, listVars, codec>>

SetPtzPresetReturn ==
  /\ pc = "SetPtzPreset"
  /\ \E reply \in Replies("SetPtzPreset", WriteValues) :
       Await(reply, Return)
  /\ UNCHANGED <<top, call, devMask, capVars, listVars, codec>>

\* the instance as constructed: both caches empty
CapInit ==
  /\ abilityCache = [c \in {} |-> JUndef]
  /\ aiSupportCache = [c \in {} |-> <<>>]
  /\ calls = <<>>
  /\ capLog = <<>>

\* no listPresets call made yet
ListInit ==
  /\ listN = 0
  /\ listReqs = 0
  /\ listCall = [pc |-> "idle"]

\* no grid area encoded yet
CodecInit == codec = [pc |-> "idle"]

Init == PresetInit /\ CapInit /\ ListInit /\ CodecInit

PresetNext ==
  \/ CallApplyZonesForPreset
  \/ CallSetMasks
  \/ CallSetMdZone
  \/ CallSetAiZone
  \/ CallGotoPreset
  \/ CallGotoPresetWithZones
  \/ CallSetGuard
  \/ CallGetMdZone
  \/ CallGetAiZone
  \/ CallBuildPanorama
  \/ CallGetAlarm
  \/ CallGetMdState
  \/ CallSetPreset
  \/ PtzCtrlReturn
  \/ DelayFires
  \/ ProviderReturn
  \/ SetMaskReturn
  \/ GetMdAlarmReturn
  \/ SetMdAlarmReturn
  \/ SetAlarmAreaReturn
  \/ SetPtzGuardReturn
  \/ GetMdZoneReturn
  \/ GetAiAlarmReturn
  \/ SnapshotReturn
  \/ GetAlarmReturn
  \/ GetMdStateReturn
  \/ SetPtzPresetReturn

\* the preset and zone methods, called one after another on one instance
Spec == Init /\ [][PresetNext]_vars

----------------------------------------------------------------------------
(* The capability caches: getChannelAbility, getAiCfg, getSupportedAiTypes. *)

\* `support${type}`
SupportKey(type) == "support" \o type

\* type.toUpperCase()
UpperCase(type) ==
  CASE type = "people" -> "PEOPLE"
    [] type = "vehicle" -> "VEHICLE"
    [] type = "dog_cat" -> "DOG_CAT"
    [] type = "face" -> "FACE"

\* flag === 1 || flag === true
IsOneOrTrue(v) == (v.k = "number" /\ v.n = 1) \/ (v.k = "boolean" /\ v.b)

\* abilityChn.find((item) => item?.channel === channel) ?? null
findChannel(abilityChn, channel) ==
  LET matches(i) == LET c == Get(abilityChn.a[i], "channel")
                    IN c.k = "number" /\ c.n = channel
  IN IF \E i \in 1..Len(abilityChn.a) : matches(i)
     THEN abilityChn.a[CHOOSE i \in 1..Len(abilityChn.a) :
                         matches(i) /\ \A j \in 1..(i - 1) : ~matches(j)]
     ELSE JNull

\* what getChannelAbility stores for a channel from GetAbility's response
channelAbility(channel, response) ==
  LET ability == Coalesce(Coalesce(Get(response, "ability"),
                                   Get(response, "Ability")), response)
      abilityChn == Get(ability, "abilityChn")
      found == IF abilityChn.k = "array" THEN findChannel(abilityChn, channel)
               ELSE IF Truthy(abilityChn) /\ TypeofObject(abilityChn)
                    THEN Coalesce(Coalesce(Get(abilityChn, IdxKey(channel)),
                                           Get(abilityChn, "chn" \o IdxKey(channel))),
                                  JNull)
               ELSE JNull
  IN Coalesce(Coalesce(found, ability), EmptyObj)

\* a getChannelAbility that stores nothing when GetAbility throws
abilityCacheSet_successOnly(cache, channel, reply) ==
  IF reply.ok THEN (channel :> channelAbility(channel, reply.v)) @@ cache
  ELSE cache

\* a getChannelAbility whose map is not keyed by channel: what one channel's
\* lookup stores is stored for every channel
abilityCacheSet_everyChannel(cache, channel, reply) ==
  [c \in Channels |-> IF reply.ok THEN channelAbility(channel, reply.v) ELSE EmptyObj]

\* the two this.abilityCache.set(channel, ...) of getChannelAbility: the
\* channel's record at GetAbility's response, {} at its throw
abilityCacheSet(cache, channel, reply) ==
  IF reply.ok THEN (channel :> channelAbility(channel, reply.v)) @@ cache
  ELSE (channel :> EmptyObj) @@ cache

\* this.abilityCache.get(channel) ?? null
cachedAbility(cache, channel) == Coalesce(cache[channel], JNull)

\* the first tier: the types flagged in the channel's ability record, in the
\* enum's order
tier1(ability) ==
  LET aiFlags == Coalesce(Coalesce(Coalesce(Coalesce(Get(ability, "supportAi"),
                                                     Get(ability, "supportAI")),
                                            Get(ability, "ai")),
                                   Get(ability, "AI")),
                          ability)
      flag(type) == Coalesce(Coalesce(Get(aiFlags, type),
                                      Get(aiFlags, SupportKey(type))),
                             Get(aiFlags, SupportKey(UpperCase(type))))
  IN IF Truthy(aiFlags) /\ TypeofObject(aiFlags)
     THEN SelectSeq(SUPPORTED_AI_TYPES, LAMBDA type : IsOneOrTrue(flag(type)))
     ELSE <<>>

\* supported.size === 0 after the first tier that always asks GetAiCfg
needsAiCfg_always(supported) == TRUE

\* supported.size === 0
needsAiCfg(supported) == supported = <<>>

\* getAiCfg's result: cfg?.AiCfg ?? cfg
aiCfgOf(cfg) == Coalesce(Get(cfg, "AiCfg"), cfg)

\* the second tier: the types flagged in the AI configuration, added to the set
tier2(cfg, supported) ==
  LET info == Coalesce(Coalesce(Get(cfg, "ability"), Get(cfg, "Ability")), cfg)
      has(type) == \E i \in 1..Len(supported) : supported[i] = type
  IN supported \o SelectSeq(SUPPORTED_AI_TYPES,
                            LAMBDA type : IsOneOrTrue(Get(info, type)) /\ ~has(type))

\* a second tier whose getAiCfg failure is not caught
afterAiCfg_uncaught(reply, supported) ==
  IF reply.ok THEN [k |-> "return", result |-> tier2(aiCfgOf(reply.v), supported)]
  ELSE Throw(reply.err)

\* getSupportedAiTypes from getAiCfg's settling on: the try/catch around the
\* second tier
afterAiCfg(reply, supported) ==
  IF reply.ok THEN [k |-> "return", result |-> tier2(aiCfgOf(reply.v), supported)]
  ELSE [k |-> "return", result |-> supported]

\* a cache that remembers only the results that name a type
aiSupportCacheSet_nonEmptyOnly(cache, channel, result) ==
  IF result = <<>> THEN cache ELSE (channel :> result) @@ cache

\* this.aiSupportCache.set(channel, result)
aiSupportCacheSet(cache, channel, result) == (channel :> result) @@ cache

\* what GetAbility answers: per-channel records in an array, in an object keyed
\* by channel number and by chn{channel}, no per-channel structure, flags on
\* the record itself, null, a primitive
AbilityValues ==
  << JObj([Ability |-> JObj([abilityChn |-> JArr(<<
        JObj([channel |-> JNum(0),
              supportAi |-> JObj([people |-> JNum(1), vehicle |-> JBool(TRUE),
                                  face |-> JNum(0)])]),
        JObj([channel |-> JNum(1), supportAi |-> EmptyObj]) >>)])]),
     JObj([ability |-> JObj([abilityChn |-> JObj(
        ("0" :> JObj([ai |-> JObj([supportpeople |-> JNum(1)])]))
        @@ ("chn1" :> JObj([AI |-> JObj([supportDOG_CAT |-> JBool(TRUE)])])))])]),
     JObj([supportAI |-> JObj([face |-> JNum(1), people |-> JNum(2),
                               vehicle |-> JStr("1")])]),
     JObj([dog_cat |-> JBool(TRUE)]),
     JNull,
     JNum(5) >>

\* what GetAiCfg answers
AiCfgValues ==
  << JObj([AiCfg |-> JObj([ability |-> JObj([people |-> JNum(1), face |-> JBool(TRUE)])])]),
     JObj([Ability |-> JObj([vehicle |-> JNum(1), dog_cat |-> JNum(0)])]),
     JObj([people |-> JStr("1")]),
     JNull >>

(*   abilityCache, aiSupportCache   the instance's two maps                *)
(*   calls     the getSupportedAiTypes calls made so far, each with its    *)
(*             channel, the await it is at (pc), its locals, the set it    *)
(*             held after the first tier, and its promise's outcome        *)
(*   capLog    the requests the transport saw and how each settled, each   *)
(*             with the call it is by                                      *)

NewCall(channel) ==
  [channel |-> channel, pc |-> "start", ability |-> JNull, cfg |-> ReplyOk(JNull),
   tier1 |-> <<>>, supported |-> <<>>, viaCache |-> FALSE,
   outcome |-> Pending, result |-> <<>>]

\* the call resolves with result
Finished(c, result) ==
  [c EXCEPT !.pc = "done", !.ability = JNull, !.cfg = ReplyOk(JNull),
            !.outcome = Resolved, !.result = result]

\* the call rejects with err
Failed(c, err) ==
  [c EXCEPT !.pc = "done", !.ability = JNull, !.cfg = ReplyOk(JNull),
            !.outcome = Rejected(err)]

CapRequest(cmd, payload, action, i) ==
  [e |-> "req", cmd |-> cmd, payload |-> payload, action |-> action, by |-> i]

\* the reply to call i's request, as the log records it
CapReplied(cmd, reply, i) ==
  [e |-> IF reply.ok THEN "ok" ELSE "fail", cmd |-> cmd, by |-> i]

\* no call is in flight
NoCallRunning == \A i \in 1..Len(calls) : calls[i].pc = "done"

\* getSupportedAiTypes(channel) up to its first await: a cached list is
\* returned at once; otherwise getChannelAbility returns the cached record or
\* asks GetAbility
StartGetSupportedAiTypes ==
  /\ Len(calls) < MaxCalls
  /\ \E channel \in Channels :
       LET i == Len(calls) + 1
           c == NewCall(channel)
       IN IF channel \in DOMAIN aiSupportCache
          THEN /\ calls' = Append(calls, Finished([c EXCEPT !.viaCache = TRUE],
                                                  aiSupportCache[channel]))
               /\ capLog' = capLog
          ELSE IF channel \in DOMAIN abilityCache
          THEN /\ calls' = Append(calls, [c EXCEPT !.pc = "ability",
                                                   !.ability = cachedAbility(abilityCache, channel)])
               /\ capLog' = capLog
          ELSE /\ calls' = Append(calls, [c EXCEPT !.pc = "GetAbility"])
               /\ capLog' = Append(capLog, CapRequest("GetAbility", EmptyObj, None, i))
  /\ UNCHANGED <<abilityCache, aiSupportCache, presetVars, listVars, codec>>

\* a call made when every call before it has settled
CallGetSupportedAiTypes == NoCallRunning /\ StartGetSupportedAiTypes

\* a call made at any time, the calls before it settled or not
CallGetSupportedAiTypesOverlapping ==
  /\ Len(calls) < MaxOverlap
  /\ StartGetSupportedAiTypes

\* GetAbility settles inside getChannelAbility: the record is stored and
\* returned, or on a throw {} is stored and null returned
GetAbilityReturn ==
  \E i \in 1..Len(calls) :
    /\ calls[i].pc = "GetAbility"
    /\ \E reply \in Replies("GetAbility", AbilityValues) :
         LET channel == calls[i].channel
             stored == abilityCacheSet(abilityCache, channel, reply)
         IN /\ abilityCache' = stored
            /\ calls' = [calls EXCEPT ![i].pc = "ability",
                                      ![i].ability = IF reply.ok
                                                     THEN cachedAbility(stored, channel)
                                                     ELSE JNull]
            /\ capLog' = Append(capLog, CapReplied("GetAbility", reply, i))
    /\ UNCHANGED <<aiSupportCache, presetVars, listVars, codec>>

\* getSupportedAiTypes resumes with the ability record: the first tier, then
\* either getAiCfg's request or the result stored and returned
AbilityResume ==
  \E i \in 1..Len(calls) :
    /\ calls[i].pc = "ability"
    /\ LET channel == calls[i].channel
           supported == tier1(calls[i].ability)
           c == [calls[i] EXCEPT !.tier1 = supported, !.supported = supported]
       IN IF needsAiCfg(supported)
          THEN /\ calls' = [calls EXCEPT ![i] = [c EXCEPT !.pc = "GetAiCfg"]]
               /\ capLog' = Append(capLog, CapRequest("GetAiCfg",
                                                      JObj([channel |-> JNum(channel)]),
                                                      Some(1), i))
               /\ UNCHANGED aiSupportCache
          ELSE /\ calls' = [calls EXCEPT ![i] = Finished(c, supported)]
               /\ aiSupportCache' = aiSupportCacheSet(aiSupportCache, channel, supported)
               /\ UNCHANGED capLog
    /\ UNCHANGED <<abilityCache, presetVars, listVars, codec>>

\* GetAiCfg settles inside getAiCfg
GetAiCfgReturn ==
  \E i \in 1..Len(calls) :
    /\ calls[i].pc = "GetAiCfg"
    /\ \E reply \in Replies("GetAiCfg", AiCfgValues) :
         /\ calls' = [calls EXCEPT ![i].pc = "cfg", ![i].cfg = reply]
         /\ capLog' = Append(capLog, CapReplied("GetAiCfg", reply, i))
    /\ UNCHANGED <<abilityCache, aiSupportCache, presetVars, listVars, codec>>

\* getSupportedAiTypes resumes with getAiCfg's result or throw: the second
\* tier, then the result stored and returned
CfgResume ==
  \E i \in 1..Len(calls) :
    /\ calls[i].pc = "cfg"
    /\ LET n == afterAiCfg(calls[i].cfg, calls[i].supported)
       IN IF n.k = "return"
          THEN /\ calls' = [calls EXCEPT ![i] = Finished(calls[i], n.result)]
               /\ aiSupportCache' = aiSupportCacheSet(aiSupportCache, calls[i].channel, n.result)
          ELSE /\ calls' = [calls EXCEPT ![i] = Failed(calls[i], n.err)]
               /\ UNCHANGED aiSupportCache
    /\ UNCHANGED <<abilityCache, capLog, presetVars, listVars, codec>>

CapNext ==
  \/ CallGetSupportedAiTypes
  \/ GetAbilityReturn
  \/ AbilityResume
  \/ GetAiCfgReturn
  \/ CfgResume

\* getSupportedAiTypes called again and again on one instance, each call
\* after the one before it has settled
SpecCap == Init /\ [][CapNext]_vars

OverlapNext ==
  \/ CallGetSupportedAiTypesOverlapping
  \/ GetAbilityReturn
  \/ AbilityResume
  \/ GetAiCfgReturn
  \/ CfgResume

\* getSupportedAiTypes called on one instance with no waiting for the calls
\* in flight: the calls interleave at their awaits
SpecOverlap == Init /\ [][OverlapNext]_vars


----------------------------------------------------------------------------
(* listPresets: one read of the device's preset list, decoded from whatever *)
(* envelope the device wraps it in.                                         *)

\* the preset arrays of the model hold at most this many elements
MaxPresets == 2

\* listPresets is called at most this many times on one instance
MaxListCalls == 2

\* the number NaN
NaN == [k |-> "NaN"]

Digit(d) ==
  CASE d = 0 -> "0" [] d = 1 -> "1" [] d = 2 -> "2" [] d = 3 -> "3" [] d = 4 -> "4"
    [] d = 5 -> "5" [] d = 6 -> "6" [] d = 7 -> "7" [] d = 8 -> "8" [] OTHER -> "9"

RECURSIVE Decimal(_)
\* the decimal digits of an integer
Decimal(n) ==
  IF n < 0 THEN "-" \o Decimal(0 - n)
  ELSE IF n < 10 THEN Digit(n)
  ELSE Decimal(n \div 10) \o Digit(n % 10)

\* Number(s) of a string: the numeric strings of the model are the single
\* digits; the empty string is 0; the other strings of the model are no
\* numerals
StringToNumber(s) ==
  IF s = "" THEN JNum(0)
  ELSE IF \E d \in 0..9 : Digit(d) = s THEN JNum(CHOOSE d \in 0..9 : Digit(d) = s)
  ELSE NaN

RECURSIVE ToNumber(_)
\* Number(v)
ToNumber(v) ==
  CASE v.k = "number" -> v
    [] v.k = "NaN" -> v
    [] v.k = "string" -> StringToNumber(v.s)
    [] v.k = "boolean" -> JNum(IF v.b THEN 1 ELSE 0)
    [] v.k = "null" -> JNum(0)
    [] v.k = "array" ->
         IF Len(v.a) = 0 THEN JNum(0)
         ELSE IF Len(v.a) > 1 THEN NaN
         ELSE IF Nullish(v.a[1]) THEN JNum(0)
         ELSE IF v.a[1].k \in {"number", "string", "array"} THEN ToNumber(v.a[1])
         ELSE NaN
    [] OTHER -> NaN

RECURSIVE StringOf(_)
RECURSIVE Join(_, _)
\* String(v)
StringOf(v) ==
  CASE v.k = "string" -> v.s
    [] v.k = "number" -> Decimal(v.n)
    [] v.k = "NaN" -> "NaN"
    [] v.k = "boolean" -> IF v.b THEN "true" ELSE "false"
    [] v.k = "null" -> "null"
    [] v.k = "undefined" -> "undefined"
    [] v.k = "array" -> Join(v.a, 1)
    [] OTHER -> "[object Object]"

\* the elements of an array from the i-th on, joined by commas
Join(a, i) ==
  IF i > Len(a) THEN ""
  ELSE (IF i > 1 THEN "," ELSE "")
       \o (IF Nullish(a[i]) THEN "" ELSE StringOf(a[i]))
       \o Join(a, i + 1)

\* Array.isArray(v)
IsArray(v) == v.k = "array"

\* key in v, for a v whose typeof is "object" and that is not null
HasKey(v, key) == v.k = "object" /\ key \in DOMAIN v.f

\* an object whose keys were inserted in the order keys
JObjKeys(keys, f) == [k |-> "object", f |-> f, keys |-> keys]

\* Object.keys(v): the keys in insertion order (an object built without an
\* order has one key at most)
ObjectKeys(v) ==
  IF "keys" \in DOMAIN v THEN v.keys
  ELSE IF DOMAIN v.f = {} THEN <<>>
  ELSE << CHOOSE key \in DOMAIN v.f : TRUE >>

\* a canonical preset record
PtzPreset(id, name, enable, channel) ==
  [id |-> id, name |-> name, enable |-> enable, channel |-> channel]

\* the first element of an array has an id, the lower-case one only
looksLikePresets_idOnly(value) ==
  /\ IsArray(value) /\ Len(value.a) > 0
  /\ Truthy(value.a[1]) /\ TypeofObject(value.a[1])
  /\ HasKey(value.a[1], "id")

\* the first element of an array looks like a preset
looksLikePresets(value) ==
  /\ IsArray(value) /\ Len(value.a) > 0
  /\ Truthy(value.a[1]) /\ TypeofObject(value.a[1])
  /\ (HasKey(value.a[1], "id") \/ HasKey(value.a[1], "ID"))

\* value is an object, not an array, whose property key is an array
hasNested(value, key) ==
  /\ Truthy(value) /\ TypeofObject(value) /\ ~IsArray(value)
  /\ Truthy(Get(value, key)) /\ IsArray(Get(value, key))

RECURSIVE genericScan(_, _, _)
\* the fallback: the loop over Object.keys(response) from the i-th key on;
\* null when no property is taken
genericScan(response, keys, i) ==
  IF i > Len(keys) THEN JNull
  ELSE LET value == Get(response, keys[i])
       IN IF looksLikePresets(value) THEN value
          ELSE IF hasNested(value, "preset") THEN Get(value, "preset")
          ELSE IF hasNested(value, "Preset") THEN Get(value, "Preset")
          ELSE genericScan(response, keys, i + 1)

\* an array as it is, anything else as the one element of an array
wrapLone(v) == IF IsArray(v) THEN v ELSE JArr(<<v>>)

\* the test of the first decoder: if (response?.PtzPreset?.preset)
firstDecoderMatches(response) ==
  Truthy(Get(Get(response, "PtzPreset"), "preset"))

\* rawPresets as the chain of decoders leaves it (null when none matched)
rawPresetsOf(response) ==
  IF firstDecoderMatches(response)
  THEN Get(Get(response, "PtzPreset"), "preset")
  ELSE IF IsArray(Get(response, "PtzPreset")) THEN Get(response, "PtzPreset")
  ELSE IF Truthy(Get(response, "preset")) THEN wrapLone(Get(response, "preset"))
  ELSE IF Truthy(Get(response, "Presets")) THEN wrapLone(Get(response, "Presets"))
  ELSE IF IsArray(response) THEN response
  ELSE IF Truthy(response) /\ TypeofObject(response)
       THEN genericScan(response, ObjectKeys(response), 1)
  ELSE JNull

\* a filter that keeps every element that is not null
hasId_keepsAll(preset) == ~Nullish(preset)

\* the filter: preset != null && (preset.id != null || preset.ID != null)
hasId(preset) ==
  /\ ~Nullish(preset)
  /\ (~Nullish(Get(preset, "id")) \/ ~Nullish(Get(preset, "ID")))

\* the enable of a record by the truthiness of preset.enable
enableOf_truthy(preset) ==
  IF ~Nullish(Get(preset, "enable")) THEN Truthy(Get(preset, "enable")) ELSE TRUE

\* the enable of a record
enableOf(preset) ==
  IF ~Nullish(Get(preset, "enable"))
  THEN Get(preset, "enable") = JNum(1) \/ Get(preset, "enable") = JBool(TRUE)
  ELSE TRUE

\* the map: one raw element to its canonical record
toPtzPreset(preset, channel) ==
  LET id == ToNumber(Coalesce(Coalesce(Get(preset, "id"), Get(preset, "ID")), JNum(0)))
      name == StringOf(Coalesce(Coalesce(Get(preset, "name"), Get(preset, "Name")),
                                JStr("Preset " \o StringOf(id))))
      presetChannel == ToNumber(Coalesce(Coalesce(Get(preset, "channel"),
                                                  Get(preset, "Channel")),
                                         JNum(channel)))
  IN PtzPreset(id, name, enableOf(preset), presetChannel)

RECURSIVE filterMap(_, _, _)
\* rawPresets.filter(...).map(...) from the i-th element on
filterMap(raw, channel, i) ==
  IF i > Len(raw) THEN <<>>
  ELSE (IF hasId(raw[i]) THEN <<toPtzPreset(raw[i], channel)>> ELSE <<>>)
       \o filterMap(raw, channel, i + 1)

\* listPresets answering from the call before when it was for the same
\* channel
listPresets_memo(channel) ==
  IF listCall.pc = "done" /\ listCall.channel = channel
     /\ listCall.outcome.k = "resolved"
  THEN ReturnValue(listCall.outcome.v)
  ELSE Request(Req("GetPtzPreset", JObj([channel |-> JNum(channel)]), Some(1)))

\* listPresets up to its await of the read
listPresets(channel) ==
  Request(Req("GetPtzPreset", JObj([channel |-> JNum(channel)]), Some(1)))

\* listPresets from the read's response on: the list it returns
listPresetsAfterRead(channel, response) ==
  IF ~Truthy(response) THEN <<>>
  ELSE LET rawPresets == rawPresetsOf(response)
       IN IF ~Truthy(rawPresets) \/ ~IsArray(rawPresets) THEN <<>>
          ELSE filterMap(rawPresets.a, channel, 1)

\* raw preset elements: with every field, with the capitalised aliases, with
\* strings for numbers, and with each kind of enable value
T_Home == JObj([id |-> JNum(1), name |-> JStr("Home"), enable |-> JNum(1),
                channel |-> JNum(0)])

T_Alias == JObj([ID |-> JNum(2)])

T_Gate == JObj([id |-> JNum(3), Name |-> JStr("Gate"), enable |-> JNum(0),
                Channel |-> JNum(1)])

T_Strings == JObj([id |-> JStr("7"), enable |-> JStr("1"), channel |-> JStr("1")])

T_True == JObj([id |-> JNum(4), enable |-> JBool(TRUE)])

T_False == JObj([id |-> JNum(5), enable |-> JBool(FALSE)])

T_Two == JObj([id |-> JNum(6), enable |-> JNum(2)])

T_Null == JObj([id |-> JNum(8), enable |-> JNull])

PresetTuples == {T_Home, T_Alias, T_Gate, T_Strings, T_True, T_False, T_Two, T_Null}

\* elements that are no presets: null, a number, an object without an id
JunkElements == {JNull, JNum(5), JObj([name |-> JStr("NoId")])}

RawElements == PresetTuples \cup JunkElements

RawLists == UNION {[1..n -> RawElements] : n \in 0..MaxPresets}

\* the envelopes a device wraps its preset array in: the five named ones and
\* the three the generic scan accepts
Shapes == {"PtzPreset.preset", "PtzPreset", "preset", "Presets", "array",
           "scan.array", "scan.preset", "scan.Preset"}

Envelope(shape, list) ==
  CASE shape = "PtzPreset.preset" -> JObj([PtzPreset |-> JObj([preset |-> JArr(list)])])
    [] shape = "PtzPreset" -> JObj([PtzPreset |-> JArr(list)])
    [] shape = "preset" -> JObj([preset |-> JArr(list)])
    [] shape = "Presets" -> JObj([Presets |-> JArr(list)])
    [] shape = "array" -> JArr(list)
    [] shape = "scan.array" -> JObj([value |-> JArr(list)])
    [] shape = "scan.preset" -> JObj([data |-> JObj([preset |-> JArr(list)])])
    [] OTHER -> JObj([data |-> JObj([Preset |-> JArr(list)])])

\* the envelopes that are objects, and the one key each has
ObjShapes == Shapes \ {"array"}

TopKey(shape) ==
  CASE shape \in {"PtzPreset.preset", "PtzPreset"} -> "PtzPreset"
    [] shape = "preset" -> "preset"
    [] shape = "Presets" -> "Presets"
    [] shape = "scan.array" -> "value"
    [] OTHER -> "data"

\* an object holding envelope a and then envelope b
TwoEnvelopes(a, la, b, lb) ==
  JObjKeys(<<TopKey(a), TopKey(b)>>, Envelope(a, la).f @@ Envelope(b, lb).f)

\* an object whose PtzPreset.preset is value, followed by envelope b
BlockedEnvelope(value, b, lb) ==
  JObjKeys(<<"PtzPreset", TopKey(b)>>,
           [PtzPreset |-> JObj([preset |-> value])] @@ Envelope(b, lb).f)

\* values of PtzPreset.preset that are no arrays
NonArrayValues == {T_Home, JNum(5), JStr("x"), JNum(0)}

\* answers of no recognised shape
MalformedResponses ==
  {JNull, JUndef, JNum(0), JNum(5), JStr(""), JStr("presets"), JBool(TRUE),
   EmptyObj,
   JObj([PtzPreset |-> JNull]),
   JObj([PtzPreset |-> EmptyObj]),
   JObj([preset |-> JNum(0)]),
   JObj([other |-> JNum(5)]),
   JObj([value |-> JArr(<<JNum(5)>>)]),
   JObj([data |-> JObj([preset |-> JNum(5)])])}

\* how an answer of the device is put together
PresetSources ==
  [kind : {"enveloped"}, shape : Shapes, list : RawLists]
    \cup [kind : {"lone"}, key : {"preset", "Presets"}, elem : RawElements]
    \cup {s \in [kind : {"two"}, a : ObjShapes, la : {<<>>, <<T_Home>>},
                  b : ObjShapes, lb : {<<T_Alias>>}] : TopKey(s.a) # TopKey(s.b)}
    \cup [kind : {"blocked"}, value : NonArrayValues,
          b : {"preset", "Presets", "scan.array", "scan.preset"}, lb : {<<T_Alias>>}]
    \cup [kind : {"malformed"}, value : MalformedResponses]

ResponseOf(src) ==
  CASE src.kind = "enveloped" -> Envelope(src.shape, src.list)
    [] src.kind = "lone" -> IF src.key = "preset" THEN JObj([preset |-> src.elem])
                            ELSE JObj([Presets |-> src.elem])
    [] src.kind = "two" -> TwoEnvelopes(src.a, src.la, src.b, src.lb)
    [] src.kind = "blocked" -> BlockedEnvelope(src.value, src.b, src.lb)
    [] OTHER -> src.value

\* the call record after a run of listPresets' code: awaiting its request, or
\* settled
ListDo(ch, n) ==
  CASE n.k = "req" -> [pc |-> n.req.cmd, channel |-> ch, req |-> Some(n.req),
                       outcome |-> Pending]
    [] n.k = "throw" -> [pc |-> "done", channel |-> ch, req |-> None,
                         outcome |-> Rejected(n.err)]
    [] OTHER -> [pc |-> "done", channel |-> ch, req |-> None,
                 outcome |-> [k |-> "resolved", v |-> n.v]]

\* listPresets(channel), once the call before it has settled
CallListPresets ==
  /\ listCall.pc \in {"idle", "done"}
  /\ listN < MaxListCalls
  /\ \E ch \in Channels :
       /\ listCall' = ListDo(ch, listPresets(ch))
       /\ listReqs' = IF listPresets(ch).k = "req" THEN listReqs + 1 ELSE listReqs
  /\ listN' = listN + 1
  /\ UNCHANGED <<presetVars, capVars, codec>>

\* the read's answer arrives and the rest of listPresets runs
GetPtzPresetReturn ==
  /\ listCall.pc = "GetPtzPreset"
  /\ \/ \E src \in PresetSources :
          listCall' =
            [listCall EXCEPT !.pc = "done",
                             !.outcome = [k |-> "resolved",
                                          v |-> listPresetsAfterRead(listCall.channel,
                                                                     ResponseOf(src))]]
              @@ [src |-> src, response |-> ResponseOf(src)]
     \/ \E ty \in TransportErrorTypes :
          listCall' =
            [listCall EXCEPT !.pc = "done",
                             !.outcome = Rejected(ReplyFail(ty, "GetPtzPreset").err)]
              @@ [src |-> [kind |-> "fail"], response |-> JUndef]
  /\ UNCHANGED <<listN, listReqs, presetVars, capVars, codec>>

ListNext ==
  \/ CallListPresets
  \/ GetPtzPresetReturn

\* listPresets called again and again on one instance
SpecList == Init /\ [][ListNext]_vars

----------------------------------------------------------------------------
(* gotoPresetWithZones on its own, with what its awaits wait for arriving.  *)

PipelineReturns ==
  \/ PtzCtrlReturn
  \/ DelayFires
  \/ ProviderReturn
  \/ SetMaskReturn
  \/ GetMdAlarmReturn
  \/ SetMdAlarmReturn
  \/ SetAlarmAreaReturn

PipelineNext ==
  \/ CallGotoPresetWithZones
  \/ PipelineReturns

\* one gotoPresetWithZones call whose transport requests, settle timer and
\* provider each settle: what an await waits for does arrive
SpecPipeline == Init /\ [][PipelineNext]_vars /\ WF_vars(PipelineReturns)

----------------------------------------------------------------------------
(* The caches and the other methods on one instance: getSupportedAiTypes   *)
(* is called and settles, then one of the other methods is called.         *)

\* getSupportedAiTypes called before any other method
CachedCall ==
  /\ top = "none"
  /\ listN = 0
  /\ Len(calls) < MaxCachedCalls
  /\ CallGetSupportedAiTypes

\* a preset, zone or alarm method called once the lookup has settled
OtherMethod == NoCallRunning /\ listN = 0 /\ PresetNext

\* listPresets called once the lookup has settled
OtherListPresets == NoCallRunning /\ top = "none" /\ ListNext

FrameNext ==
  \/ CachedCall
  \/ GetAbilityReturn
  \/ AbilityResume
  \/ GetAiCfgReturn
  \/ CfgResume
  \/ OtherMethod
  \/ OtherListPresets

SpecFrame == Init /\ [][FrameNext]_vars

----------------------------------------------------------------------------
(* The grid codec on its own: buildScope applied to an area, then          *)
(* normalizeMdScope applied to the scope it built.                         *)
(*   codec     "idle"; then the area and what buildScope returned or threw *)
(*             ("encoded"); then also what normalizeMdScope returned or    *)
(*             threw for that scope ("decoded")                            *)

\* the strings over 0 and 1 of length n
RECURSIVE BitsOfLength(_)
BitsOfLength(n) ==
  IF n = 0 THEN {""}
  ELSE {b \o d : b \in BitsOfLength(n - 1), d \in {"0", "1"}}

\* the areas given to buildScope: every size up to MaxDim in each direction,
\* zero and -1 included, with every bit string up to one longer than the largest grid
CodecAreas ==
  [width : -1..MaxDim, height : -1..MaxDim,
   bits : UNION {BitsOfLength(n) : n \in 0..(MaxDim * MaxDim + 1)}]

\* buildScope(area)
Encode ==
  /\ codec.pc = "idle"
  /\ \E area \in CodecAreas :
       codec' = [pc |-> "encoded", area |-> area, scope |-> buildScope(area)]
  /\ UNCHANGED <<presetVars, capVars, listVars>>

\* normalizeMdScope(scope), for a scope buildScope returned
Decode ==
  /\ codec.pc = "encoded"
  /\ codec.scope.ok
  /\ codec' = [codec EXCEPT !.pc = "decoded"] @@ [decoded |-> normalizeMdScope(codec.scope.v)]
  /\ UNCHANGED <<presetVars, capVars, listVars>>

CodecNext ==
  \/ Encode
  \/ Decode

\* one area through buildScope and back through normalizeMdScope
SpecCodec == Init /\ [][CodecNext]_vars

----------------------------------------------------------------------------
(* Reading the trace. *)

IsReq(i, cmd) == trace[i].e = "req" /\ trace[i].req.cmd = cmd

IsOk(i, cmd) == trace[i].e = "ok" /\ trace[i].cmd = cmd

IsEvent(i, e) == trace[i].e = e

ReqIdx == {i \in 1..Len(trace) : trace[i].e = "req"}

ReqIdxOf(cmd) == {i \in 1..Len(trace) : IsReq(i, cmd)}

OkBefore(i, cmd) == \E j \in 1..(i - 1) : IsOk(j, cmd)

\* the call runs applyZonesForPreset on a bundle
ApplyingZones ==
  /\ top \in {"applyZonesForPreset", "gotoPresetWithZones"}
  /\ call.zones # None

Zones == The(call.zones)

IsPopulated(entry) == entry.area # None

\* the entries of zones.ai that have an area, in the order of their keys
PopulatedEntries == IF Zones.ai = None THEN <<>> ELSE SelectSeq(The(Zones.ai), IsPopulated)

\* the SetAlarmArea requests issued so far, in order
IsAiWrite(ev) == ev.e = "req" /\ ev.req.cmd = "SetAlarmArea"

AiWrites == SelectSeq(trace, IsAiWrite)

----------------------------------------------------------------------------
(* The claims. *)

\* C1: applyZonesForPreset issues its writes in the order SetMask, then the
\* motion zone (GetMdAlarm, SetMdAlarm), then SetAlarmArea: when zones.masks is
\* present every motion-zone and AI-zone request comes after the SetMask
\* request has succeeded, when zones.md is present every AI-zone request comes
\* after the SetMdAlarm request has succeeded, and no request of an earlier
\* step follows one of a later step.
C1_WriteOrder ==
  ApplyingZones =>
    \A i \in ReqIdx :
      LET cmd == trace[i].req.cmd
      IN /\ cmd \in {"GetMdAlarm", "SetMdAlarm", "SetAlarmArea"} =>
              /\ Zones.masks # None => OkBefore(i, "SetMask")
              /\ \A j \in i..Len(trace) : ~IsReq(j, "SetMask")
         /\ cmd = "SetAlarmArea" =>
              /\ Zones.md # None => OkBefore(i, "SetMdAlarm")
              /\ \A j \in i..Len(trace) :
                   ~IsReq(j, "GetMdAlarm") /\ ~IsReq(j, "SetMdAlarm")
         /\ cmd = "SetMask" => Zones.masks # None
         /\ cmd \in {"GetMdAlarm", "SetMdAlarm"} => Zones.md # None

\* a bundle with masks, md and ai whose AI-zone write has been issued
C1_Witness ==
  /\ top = "applyZonesForPreset"
  /\ Zones.masks # None /\ Zones.md # None
  /\ pc = "SetAlarmArea"
  /\ ReqIdxOf("SetMask") # {} /\ ReqIdxOf("SetMdAlarm") # {}

IsHardFailure(ev) ==
  /\ ev.e = "fail"
  /\ ev.cmd = "GetMdAlarm" => ev.err.type = "ReolinkHttpError"

\* C3: applyZonesForPreset stops at the first step that fails with a hard
\* error: the failure is the last thing the transport sees, the call is
\* rejected with that error, a rejected call awaits nothing more, each write
\* is issued at most once (nothing is retried or compensated), and the Mask a
\* successful SetMask stored is still the device's.
C3_StopsAtFirstFailure ==
  ApplyingZones =>
    /\ \A i \in 1..Len(trace) :
         IsHardFailure(trace[i]) => i = Len(trace) /\ outcome = Rejected(trace[i].err)
    /\ outcome.k = "rejected" => pc = "done" /\ (trace # <<>> => trace[Len(trace)].e # "req")
    /\ Cardinality(ReqIdxOf("SetMask")) <= 1
    /\ Cardinality(ReqIdxOf("SetMdAlarm")) <= 1
    /\ Cardinality(ReqIdxOf("SetAlarmArea")) <= Len(PopulatedEntries)
    /\ \A i \in 1..Len(trace) :
         IsOk(i, "SetMask") =>
           devMask = Some(Get(trace[i - 1].req.payload, "Mask"))

\* the motion-zone write failed after the mask write succeeded
C3_Witness ==
  /\ top = "applyZonesForPreset"
  /\ \E i \in 1..Len(trace) : IsOk(i, "SetMask")
  /\ trace[Len(trace)].e = "fail" /\ trace[Len(trace)].cmd = "SetMdAlarm"
  /\ outcome.k = "rejected"
  /\ devMask # None

\* the grid sizes match
WellSized(area) == Len(area.bits) = area.width * area.height

\* C7: setAiZone rejects with no request issued when ai_type is not one of
\* the four enum values or the bit string's length differs from width*height;
\* otherwise it issues exactly one request, SetAlarmArea, first, carrying
\* channel, ai_type, width, height and the bit string.
C7_SetAiZonePreflight ==
  (top = "setAiZone") =>
    IF call.ai_type \in {"people", "vehicle", "dog_cat", "face"} /\ WellSized(call.area)
    THEN /\ ReqIdx = {1}
         /\ IsReq(1, "SetAlarmArea")
         /\ LET payload == trace[1].req.payload
            IN /\ DOMAIN payload.f = {"channel", "ai_type", "width", "height", "area"}
               /\ Get(payload, "channel").n = call.channel
               /\ Get(payload, "ai_type").s = call.ai_type
               /\ Get(payload, "width").n = call.area.width
               /\ Get(payload, "height").n = call.area.height
               /\ Get(payload, "area").s = call.area.bits
    ELSE trace = <<>> /\ outcome.k = "rejected" /\ pc = "done"

\* setAiZone called with an ai_type outside the enum and a well-sized area
C7_Witness ==
  /\ top = "setAiZone"
  /\ call.ai_type = "thermal"
  /\ WellSized(call.area) /\ call.area.width > 0 /\ call.area.height > 0
  /\ outcome.k = "rejected"

\* C8: setGuard rejects with no request issued when options.timeoutSec is
\* given and is not 60; when it is 60 or omitted it issues exactly one request,
\* SetPtzGuard, whose timeout field is 60.
C8_SetGuardTimeout ==
  (top = "setGuard") =>
    IF call.options.timeoutSec \in {None, Some(60)}
    THEN /\ ReqIdx = {1}
         /\ IsReq(1, "SetPtzGuard")
         /\ Get(Get(trace[1].req.payload, "PtzGuard"), "timeout").n = 60
         /\ Get(Get(trace[1].req.payload, "PtzGuard"), "channel").n = call.channel
    ELSE trace = <<>> /\ outcome.k = "rejected" /\ pc = "done"

\* setGuard called with timeoutSec 30
C8_Witness ==
  /\ top = "setGuard"
  /\ call.options.timeoutSec = Some(30)
  /\ outcome.k = "rejected"

\* the settle delay a call asks for
SettleAsked == IF call.opts.settleMs = None THEN 400 ELSE The(call.opts.settleMs)

\* C9: gotoPreset issues exactly one request, PtzCtrl with op ToPos for the
\* preset; the settle timer is started only at the move command's successful
\* response and for opts.settleMs (400 when not given); the call resolves
\* only when that timer has fired, and with settleMs 0 it resolves at the move
\* command's response with no timer started.
C9_GotoPresetSettles ==
  (top = "gotoPreset") =>
    /\ ReqIdx = {1}
    /\ IsReq(1, "PtzCtrl")
    /\ Get(trace[1].req.payload, "op").s = "ToPos"
    /\ Get(trace[1].req.payload, "cmdStr").id = call.id
    /\ Get(trace[1].req.payload, "channel").n = call.channel
    /\ \A i \in 1..Len(trace) :
         IsEvent(i, "delayStart") =>
           i = 3 /\ IsOk(2, "PtzCtrl") /\ trace[i].ms = SettleAsked
    /\ outcome = Resolved =>
         IF SettleAsked > 0
         THEN Len(trace) = 4 /\ IsEvent(3, "delayStart") /\ IsEvent(4, "delayEnd")
         ELSE Len(trace) = 2 /\ IsOk(2, "PtzCtrl")
    /\ outcome.k = "rejected" => Len(trace) = 2 /\ IsEvent(2, "fail")

\* gotoPreset with default options, resolved after its 400 ms wait
C9_Witness ==
  /\ top = "gotoPreset"
  /\ call.opts.settleMs = None
  /\ outcome = Resolved
  /\ \E i \in 1..Len(trace) : IsEvent(i, "delayStart") /\ trace[i].ms = 400

ZoneCommands == {"SetMask", "GetMdAlarm", "SetMdAlarm", "SetAlarmArea"}

\* C10: gotoPresetWithZones runs the move command, the settle delay, the
\* provider and the zone writes in that order: the provider is called only
\* after the move command succeeded and, when a settle delay is asked for,
\* after its timer fired; zone requests come only after the provider yielded;
\* if the move command fails the provider is never called; if the provider
\* yields nothing the call resolves with no request after the move command.
C10_MoveSettleProviderZones ==
  (top = "gotoPresetWithZones") =>
    /\ IsReq(1, "PtzCtrl") /\ ReqIdxOf("PtzCtrl") = {1}
    /\ \A i \in 1..Len(trace) :
         /\ IsEvent(i, "providerCall") =>
              /\ IsOk(2, "PtzCtrl")
              /\ trace[i].id = call.id
              /\ IF SettleAsked > 0
                 THEN i = 5 /\ IsEvent(3, "delayStart") /\ trace[3].ms = SettleAsked
                      /\ IsEvent(4, "delayEnd")
                 ELSE i = 3
              /\ \A j \in 1..Len(trace) : IsEvent(j, "providerCall") => j = i
         /\ (trace[i].e = "req" /\ trace[i].req.cmd \in ZoneCommands) =>
              \E j \in 1..(i - 1) : IsEvent(j, "providerOk")
         /\ IsEvent(i, "providerOk") => IsEvent(i - 1, "providerCall")
    /\ (Len(trace) >= 2 /\ IsEvent(2, "fail")) =>
         /\ Len(trace) = 2
         /\ outcome = Rejected(trace[2].err)
    /\ ((\E i \in 1..Len(trace) : IsEvent(i, "providerOk")) /\ call.zones = None) =>
         /\ outcome = Resolved
         /\ ReqIdx = {1}
         /\ IsEvent(Len(trace), "providerOk")

\* after a settle delay the provider yielded a bundle and a zone write was issued
C10_Witness ==
  /\ top = "gotoPresetWithZones"
  /\ SettleAsked > 0
  /\ call.zones # None
  /\ \E i \in 1..Len(trace) : trace[i].e = "req" /\ trace[i].req.cmd \in ZoneCommands
  /\ outcome = Resolved

----------------------------------------------------------------------------
(* Reading the capability log. *)

\* the places in the log of call i's requests of a command
CapReqs(cmd, i) ==
  {n \in 1..Len(capLog) : capLog[n].e = "req" /\ capLog[n].cmd = cmd /\ capLog[n].by = i}

\* the places in the log of the requests of a command made for a channel
CapReqsFor(cmd, channel) ==
  {n \in 1..Len(capLog) :
     capLog[n].e = "req" /\ capLog[n].cmd = cmd /\ calls[capLog[n].by].channel = channel}

\* call i's request of a command failed
CapFailed(cmd, i) ==
  \E n \in 1..Len(capLog) : capLog[n].e = "fail" /\ capLog[n].cmd = cmd /\ capLog[n].by = i

\* C4: over any sequence of getSupportedAiTypes calls on one instance, at
\* most one GetAbility and at most one GetAiCfg request are issued for each
\* channel, whether those requests succeeded or failed, and a call that is not
\* the first for its channel issues no request at all.
C4_OneLookupPerChannel ==
  /\ \A channel \in Channels :
       /\ Cardinality(CapReqsFor("GetAbility", channel)) <= 1
       /\ Cardinality(CapReqsFor("GetAiCfg", channel)) <= 1
       /\ \A n \in CapReqsFor("GetAiCfg", channel) :
            Get(capLog[n].payload, "channel").n = channel
  /\ \A i, j \in 1..Len(calls) :
       (i < j /\ calls[i].channel = calls[j].channel) =>
         \A n \in 1..Len(capLog) : capLog[n].by # j

\* three calls for one channel whose two lookups both failed
C4_Witness ==
  /\ Len(calls) = 3
  /\ \A i \in 1..3 : calls[i].channel = calls[1].channel /\ calls[i].pc = "done"
  /\ CapFailed("GetAbility", 1) /\ CapFailed("GetAiCfg", 1)
  /\ Len(capLog) = 4

\* the call went through the tiers and is past the first
PastTier1(i) == ~calls[i].viaCache /\ calls[i].pc \in {"GetAiCfg", "cfg", "done"}

\* C5: getSupportedAiTypes issues the GetAiCfg request if and only if the
\* first tier yields the empty set, and never before the first tier has run;
\* when the first tier finds a type, the call resolves with exactly the
\* first tier's set.
C5_FallbackIffTier1Empty ==
  \A i \in 1..Len(calls) :
    /\ PastTier1(i) => (CapReqs("GetAiCfg", i) # {} <=> calls[i].tier1 = <<>>)
    /\ ~PastTier1(i) => CapReqs("GetAiCfg", i) = {}
    /\ (PastTier1(i) /\ calls[i].tier1 # <<>>) =>
         /\ calls[i].pc = "done"
         /\ calls[i].outcome = Resolved
         /\ calls[i].result = calls[i].tier1

\* a call for channel 0 answered people and vehicle by the first tier alone
C5_Witness ==
  /\ Len(calls) >= 1
  /\ calls[1].channel = 0
  /\ calls[1].pc = "done"
  /\ calls[1].result = <<"people", "vehicle">>
  /\ CapReqs("GetAbility", 1) # {}
  /\ CapReqs("GetAiCfg", 1) = {}

\* C6: getSupportedAiTypes never rejects: whichever of GetAbility and GetAiCfg
\* fail, the call resolves with the types found so far (none when GetAiCfg
\* fails, the empty list when both fail), a failed GetAbility is memoized as
\* the empty record, and the list a call resolved with is the channel's entry
\* of the AI-support cache.
C6_NeverRejects ==
  \A i \in 1..Len(calls) :
    /\ calls[i].outcome.k # "rejected"
    /\ calls[i].pc = "done" =>
         /\ calls[i].outcome = Resolved
         /\ calls[i].channel \in DOMAIN aiSupportCache
         /\ aiSupportCache[calls[i].channel] = calls[i].result
         /\ CapFailed("GetAiCfg", i) => calls[i].result = <<>>
    /\ (CapFailed("GetAbility", i) /\ calls[i].pc # "GetAbility") =>
         /\ calls[i].channel \in DOMAIN abilityCache
         /\ abilityCache[calls[i].channel].k = "object"
         /\ DOMAIN abilityCache[calls[i].channel].f = {}
         /\ calls[i].tier1 = <<>>

\* a call whose two requests both failed resolved with the empty list, which
\* a second call for the channel got from the cache
C6_Witness ==
  /\ Len(calls) = 2
  /\ calls[2].channel = calls[1].channel
  /\ CapFailed("GetAbility", 1) /\ CapFailed("GetAiCfg", 1)
  /\ calls[1].outcome = Resolved /\ calls[1].result = <<>>
  /\ calls[2].viaCache /\ calls[2].outcome = Resolved /\ calls[2].result = <<>>

----------------------------------------------------------------------------
(* Validation errors. *)

\* the errors the module itself throws on a bad argument or a bad device
\* payload (throw new Error(...)), as opposed to what the transport throws
IsValidationError(e) == e.type = "Error"

RejectedByValidation == outcome.k = "rejected" /\ IsValidationError(outcome.err)

\* the call's arguments fail the method's pre-flight check
InvalidArgs ==
  CASE top = "setAiZone" -> ~IsSupportedAiType(call.ai_type) \/ ~WellSized(call.area)
    [] top = "setMdZone" -> ~WellSized(call.area)
    [] top = "setGuard" -> call.options.timeoutSec \notin {None, Some(60)}
    [] top = "buildPanorama" -> call.plan.maxTiles # None /\ The(call.plan.maxTiles) <= 0
    [] OTHER -> FALSE

\* C11 as stated: whenever any operation reports a validation error, the
\* call has issued no transport request before it, also for getMdZone,
\* getAiZone, applyZonesForPreset and gotoPresetWithZones.
C11_NoRequestBeforeValidationError ==
  RejectedByValidation => ReqIdx = {}

\* C11: setAiZone, setMdZone, setGuard and buildPanorama check their
\* arguments before their first request: a call with bad arguments is
\* rejected with the validation error and the transport has seen nothing.
\* getMdZone and getAiZone validate the device's answer, so their validation
\* error follows the one read and its reply.  In applyZonesForPreset and
\* gotoPresetWithZones the step that fails validation has issued no request
\* of its own, but the requests of the earlier steps have been issued and
\* answered.
C11_ValidationBeforeOwnRequest ==
  /\ top \in {"setAiZone", "setMdZone", "setGuard", "buildPanorama"} =>
       /\ RejectedByValidation => trace = <<>>
       /\ InvalidArgs => RejectedByValidation /\ trace = <<>> /\ pc = "done"
  /\ top \in {"getMdZone", "getAiZone"} /\ RejectedByValidation =>
       /\ Len(trace) = 2
       /\ trace[1].e = "req" /\ trace[2].e = "ok"
       /\ outcome.err.at \in {"normalizeMdScope", "normalizeAiArea"}
  /\ top \in {"applyZonesForPreset", "gotoPresetWithZones"} /\ RejectedByValidation =>
       /\ outcome.err.at \in {"buildScope", "setAiZone"}
       /\ \A i \in ReqIdx : i < Len(trace) /\ trace[i + 1].e \in {"ok", "fail"}

\* applyZonesForPreset wrote the masks and then rejected a badly sized motion
\* area: a validation error after a request
C11_Witness ==
  /\ top = "applyZonesForPreset"
  /\ RejectedByValidation
  /\ outcome.err.at = "buildScope"
  /\ Len(trace) = 2
  /\ IsReq(1, "SetMask") /\ IsOk(2, "SetMask")

----------------------------------------------------------------------------
(* The motion-zone merge-read. *)

\* the SetMdAlarm payload that holds nothing but the call's own arguments
MinimalMdAlarm(channel, area) ==
  JObj([MdAlarm |->
          JObj([channel |-> JNum(channel),
                scope |-> JObj([width |-> JNum(area.width),
                                height |-> JNum(area.height),
                                cols |-> JNum(area.width),
                                rows |-> JNum(area.height),
                                table |-> JStr(area.bits)]),
                table |-> JStr(area.bits)])])

\* the merge-read failed at place i of the trace
IsReadFailure(i) == trace[i].e = "fail" /\ trace[i].cmd = "GetMdAlarm"

IsDeviceError(e) == e.type = "ReolinkHttpError"

\* C12: in setMdZone, a merge-read that fails with ReolinkHttpError rejects
\* the call with that error and no SetMdAlarm is issued; a merge-read that
\* fails with anything else is followed by exactly one SetMdAlarm, carrying
\* the minimal payload (channel, the new scope, table), and the call resolves
\* once that write has succeeded.
C12_MergeReadFailure ==
  top = "setMdZone" =>
    \A i \in 1..Len(trace) :
      IsReadFailure(i) =>
        IF IsDeviceError(trace[i].err)
        THEN /\ i = Len(trace)
             /\ pc = "done"
             /\ outcome = Rejected(trace[i].err)
             /\ ReqIdxOf("SetMdAlarm") = {}
        ELSE /\ ReqIdxOf("SetMdAlarm") = {i + 1}
             /\ trace[i + 1].req.payload = MinimalMdAlarm(call.channel, call.area)
             /\ outcome # Rejected(trace[i].err)
             /\ (i + 2 <= Len(trace) /\ IsOk(i + 2, "SetMdAlarm")) => outcome = Resolved
             /\ pc = "done" /\ outcome.k = "rejected" =>
                  trace[Len(trace)].e = "fail" /\ trace[Len(trace)].cmd = "SetMdAlarm"

\* setMdZone's merge-read failed with a non-device error, the minimal payload
\* was written and the call resolved
C12_Witness ==
  /\ top = "setMdZone"
  /\ Len(trace) = 4
  /\ IsReadFailure(2) /\ ~IsDeviceError(trace[2].err)
  /\ IsReq(3, "SetMdAlarm") /\ IsOk(4, "SetMdAlarm")
  /\ outcome = Resolved

\* C13 as stated: no failure of the merge-read, of any kind, is surfaced to
\* the caller: setMdZone goes on to write the minimal payload and the
\* pipeline is not halted.
C13_MergeReadNeverSurfaced ==
  \A i \in 1..Len(trace) :
    IsReadFailure(i) =>
      /\ outcome # Rejected(trace[i].err)
      /\ i < Len(trace) /\ IsReq(i + 1, "SetMdAlarm")

\* C13: inside applyZonesForPreset, a merge-read failure that is not a
\* ReolinkHttpError is not surfaced: the minimal payload is written next, and
\* once that write has succeeded the pipeline goes on to the AI zones (or
\* resolves when there is none to write).  A merge-read failure that is a
\* ReolinkHttpError is surfaced: it rejects the call and halts the pipeline.
C13_SoftMergeReadAbsorbed ==
  ApplyingZones =>
    \A i \in 1..Len(trace) :
      IsReadFailure(i) =>
        IF IsDeviceError(trace[i].err)
        THEN i = Len(trace) /\ outcome = Rejected(trace[i].err)
        ELSE /\ outcome # Rejected(trace[i].err)
             /\ IsReq(i + 1, "SetMdAlarm")
             /\ trace[i + 1].req.payload = MinimalMdAlarm(call.channel, The(Zones.md))
             /\ (i + 2 <= Len(trace) /\ IsOk(i + 2, "SetMdAlarm")) =>
                  IF PopulatedEntries = <<>> THEN outcome = Resolved
                  ELSE \/ i + 3 <= Len(trace) /\ IsReq(i + 3, "SetAlarmArea")
                       \/ RejectedByValidation /\ outcome.err.at = "setAiZone"

\* the merge-read failed with a non-device error inside applyZonesForPreset and
\* the pipeline reached the AI-zone write
C13_Witness ==
  /\ top = "applyZonesForPreset"
  /\ \E i \in 1..Len(trace) :
       /\ IsReadFailure(i) /\ ~IsDeviceError(trace[i].err)
       /\ i + 3 <= Len(trace)
       /\ IsOk(i + 2, "SetMdAlarm")
       /\ IsReq(i + 3, "SetAlarmArea")

\* the area the motion-zone write of this call carries
MdArea == mdAreaOf(top, call)

\* the keys buildScope defines
ScopeKeys == {"width", "height", "cols", "rows", "table"}

\* the configuration a GetMdAlarm answer holds: current?.MdAlarm ?? current
FetchedMdAlarm(current) ==
  IF current.k = "object" /\ "MdAlarm" \in DOMAIN current.f
     /\ current.f["MdAlarm"].k \notin {"undefined", "null"}
  THEN current.f["MdAlarm"] ELSE current

\* the fields of the fetched configuration's own scope
FetchedScopeFields(mdAlarm) ==
  IF "scope" \in DOMAIN mdAlarm.f /\ mdAlarm.f["scope"].k = "object"
  THEN mdAlarm.f["scope"].f ELSE [x \in {} |-> JUndef]

\* payload p is configuration mdAlarm with the call's channel, scope and table
\* merged over it
IsMergeOf(p, mdAlarm, channel, area) ==
  LET old == FetchedScopeFields(mdAlarm)
  IN /\ p.k = "object"
     /\ DOMAIN p.f = DOMAIN mdAlarm.f \cup {"channel", "scope", "table"}
     /\ \A key \in DOMAIN mdAlarm.f \ {"channel", "scope", "table"} :
          p.f[key] = mdAlarm.f[key]
     /\ p.f["channel"] = JNum(channel)
     /\ p.f["table"] = JStr(area.bits)
     /\ p.f["scope"].k = "object"
     /\ DOMAIN p.f["scope"].f = DOMAIN old \cup ScopeKeys
     /\ \A key \in DOMAIN old \ ScopeKeys : p.f["scope"].f[key] = old[key]
     /\ p.f["scope"].f["width"] = JNum(area.width)
     /\ p.f["scope"].f["height"] = JNum(area.height)
     /\ p.f["scope"].f["cols"] = JNum(area.width)
     /\ p.f["scope"].f["rows"] = JNum(area.height)
     /\ p.f["scope"].f["table"] = JStr(area.bits)

\* C14: when setMdZone's merge-read answers with a configuration object, the
\* SetMdAlarm issued next carries that configuration with every sibling field
\* kept and every field of its scope that the new scope does not define kept,
\* while channel, table and the scope's width, height, cols, rows and table
\* are those of the call's arguments, whatever the fetched values were.
C14_MergeKeepsSiblings ==
  top \in {"setMdZone", "applyZonesForPreset", "gotoPresetWithZones"} =>
    \A i \in 1..Len(trace) :
      (IsOk(i, "GetMdAlarm") /\ FetchedMdAlarm(trace[i].v).k = "object") =>
        /\ i < Len(trace)
        /\ IsReq(i + 1, "SetMdAlarm")
        /\ DOMAIN trace[i + 1].req.payload.f = {"MdAlarm"}
        /\ IsMergeOf(trace[i + 1].req.payload.f["MdAlarm"],
                     FetchedMdAlarm(trace[i].v), call.channel, MdArea)

\* the merge-read answered a configuration of channel 7 with a sens field and
\* a scope of cols 9 and an extra field, and the write for channel 0 kept sens
\* and extra and carries the call's channel and cols
C14_Witness ==
  /\ top = "setMdZone"
  /\ call.channel = 0
  /\ Len(trace) >= 3
  /\ IsOk(2, "GetMdAlarm")
  /\ FetchedMdAlarm(trace[2].v).k = "object"
  /\ "sens" \in DOMAIN FetchedMdAlarm(trace[2].v).f
  /\ FetchedMdAlarm(trace[2].v).f["channel"] = JNum(7)
  /\ "extra" \in DOMAIN FetchedScopeFields(FetchedMdAlarm(trace[2].v))
  /\ IsReq(3, "SetMdAlarm")
  /\ trace[3].req.payload.f["MdAlarm"].f["sens"] = JNum(5)
  /\ trace[3].req.payload.f["MdAlarm"].f["channel"] = JNum(0)
  /\ trace[3].req.payload.f["MdAlarm"].f["scope"].f["extra"] = JNum(1)
  /\ trace[3].req.payload.f["MdAlarm"].f["scope"].f["cols"] = JNum(2)

----------------------------------------------------------------------------
(* Device errors. *)

\* C15: in every operation of the preset and zone pipeline (the moves, the
\* guard, the mask, motion-zone and AI-zone reads and writes, the panorama
\* snapshot, a merge-read included), a ReolinkHttpError thrown by the
\* transport is the last thing the transport sees of the call: the call is
\* rejected with that very error, and no request is issued after it (the
\* failed request is not retried, the error is not swallowed).
C15_DeviceErrorPropagates ==
  \A i \in 1..Len(trace) :
    (trace[i].e = "fail" /\ IsDeviceError(trace[i].err)) =>
      /\ i = Len(trace)
      /\ pc = "done"
      /\ outcome = Rejected(trace[i].err)
      /\ trace[i - 1].e = "req" /\ trace[i - 1].req.cmd = trace[i].cmd

\* the move command of gotoPreset failed with a device error: the call is
\* rejected with it, without the settle wait
C15_Witness ==
  /\ top = "gotoPreset"
  /\ Len(trace) = 2
  /\ IsReq(1, "PtzCtrl")
  /\ trace[2].e = "fail" /\ IsDeviceError(trace[2].err)
  /\ outcome = Rejected(trace[2].err)

----------------------------------------------------------------------------
(* listPresets. *)

\* the listPresets call has returned a list
ListReturned == listCall.pc = "done" /\ listCall.outcome.k = "resolved"

ListResult == listCall.outcome.v

\* a raw element that is a preset tuple: an object carrying id or ID
IsPresetTuple(e) == e.k = "object" /\ DOMAIN e.f \cap {"id", "ID"} # {}

\* C16: whichever of the envelope shapes (PtzPreset.preset, PtzPreset, preset,
\* Presets, the bare array, and the three forms the generic scan accepts)
\* wraps a list of preset tuples, listPresets returns the same list of
\* records, one per tuple.
C16_EnvelopeIndependent ==
  (/\ ListReturned
   /\ listCall.src.kind = "enveloped"
   /\ \A i \in 1..Len(listCall.src.list) : IsPresetTuple(listCall.src.list[i])) =>
    /\ Len(ListResult) = Len(listCall.src.list)
    /\ \A shape \in Shapes :
         listPresetsAfterRead(listCall.channel, Envelope(shape, listCall.src.list))
           = ListResult

\* the tuples {ID: 2} and Home came nested under a Preset property and came
\* out as their two records
C16_Witness ==
  /\ ListReturned
  /\ listCall.src.kind = "enveloped"
  /\ listCall.src.shape = "scan.Preset"
  /\ listCall.src.list = <<T_Alias, T_Home>>
  /\ listCall.channel = 1
  /\ ListResult = << PtzPreset(JNum(2), "Preset 2", TRUE, JNum(1)),
                     PtzPreset(JNum(1), "Home", TRUE, JNum(0)) >>

\* the place of a shape's decoder in the fixed order
Rank(shape) ==
  CASE shape = "PtzPreset.preset" -> 1
    [] shape = "PtzPreset" -> 2
    [] shape = "preset" -> 3
    [] shape = "Presets" -> 4
    [] shape = "array" -> 5
    [] OTHER -> 6

\* the decoder of a shape accepts the envelope of that shape around list: a
\* top-level array property is accepted by the scan when its first element is
\* an object with an id
ShapeMatches(shape, list) ==
  shape = "scan.array" => list # <<>> /\ IsPresetTuple(list[1])

\* what listPresets returns for an answer holding envelope a and then
\* envelope b, if the first decoder that matches decides alone
FirstMatchOf(a, la, b, lb) ==
  LET aFirst == Rank(a) <= Rank(b)
      p == IF aFirst THEN a ELSE b
      lp == IF aFirst THEN la ELSE lb
      q == IF aFirst THEN b ELSE a
      lq == IF aFirst THEN lb ELSE la
  IN IF ShapeMatches(p, lp)
     THEN listPresetsAfterRead(listCall.channel, Envelope(p, lp))
     ELSE listPresetsAfterRead(listCall.channel, Envelope(q, lq))

\* an answer holding two envelopes is decoded as the earlier one in the order
\* of the decoders
TwoShapesFirstWins ==
  (ListReturned /\ listCall.src.kind = "two") =>
    ListResult = FirstMatchOf(listCall.src.a, listCall.src.la,
                              listCall.src.b, listCall.src.lb)

\* C17 as stated: the records are those of the first decoder that matches,
\* in the order 1 to 6, and decoder 1 matches only when PtzPreset.preset is
\* an array: an answer whose PtzPreset.preset is no array and that also
\* holds a later shape is decoded as that later shape, never as the empty
\* list.
C17_FirstMatchWins ==
  /\ TwoShapesFirstWins
  /\ (ListReturned /\ listCall.src.kind = "blocked") =>
       ListResult = listPresetsAfterRead(listCall.channel,
                                         Envelope(listCall.src.b, listCall.src.lb))

\* an answer whose PtzPreset.preset is a lone object, followed by a preset
\* array of one tuple, was decoded as the empty list
C17_BlockedByNonArray ==
  /\ ListReturned
  /\ listCall.src.kind = "blocked"
  /\ listCall.src.value = T_Home
  /\ listCall.src.b = "preset"
  /\ listCall.channel = 0
  /\ ListResult = <<>>
  /\ listPresetsAfterRead(0, Envelope("preset", listCall.src.lb))
       = << PtzPreset(JNum(2), "Preset 2", TRUE, JNum(0)) >>

\* the device answered the read (the transport did not throw)
ListAnswered == listCall.pc = "done" /\ listCall.src.kind # "fail"

\* the preset tuples of a list, in order
TuplesOf(list) == SelectSeq(list, IsPresetTuple)

\* C18: whatever value the transport returns for GetPtzPreset (null, a
\* primitive, an empty object, an object of no recognised shape, an envelope
\* whose array holds null or other non-preset elements), listPresets
\* resolves; it returns the empty list when no shape matches; and elements
\* with neither id nor ID leave no record: the result is the one the envelope
\* gives without them (or, for the generic scan, which looks at the first
\* element, that or the empty list).
C18_MalformedDegrades ==
  ListAnswered =>
    /\ ListReturned
    /\ listCall.src.kind = "malformed" => ListResult = <<>>
    /\ (listCall.src.kind = "lone" /\ ~IsPresetTuple(listCall.src.elem)) =>
         ListResult = <<>>
    /\ listCall.src.kind = "enveloped" =>
         LET clean == listPresetsAfterRead(
                        listCall.channel,
                        Envelope(listCall.src.shape, TuplesOf(listCall.src.list)))
         IN /\ Len(clean) = Len(TuplesOf(listCall.src.list))
            /\ IF listCall.src.shape = "scan.array"
               THEN ListResult \in {clean, <<>>}
               ELSE ListResult = clean

\* a bare array of null and the Home tuple came out as the Home record alone
C18_Witness ==
  /\ ListAnswered
  /\ listCall.src.kind = "enveloped"
  /\ listCall.src.shape = "array"
  /\ listCall.src.list = <<JNull, T_Home>>
  /\ ListResult = << PtzPreset(JNum(1), "Home", TRUE, JNum(0)) >>

\* the raw elements listPresets kept, in order, when every one of them left
\* its record
KeptElements ==
  IF ListReturned /\ listCall.src.kind = "enveloped"
     /\ Len(ListResult) = Len(TuplesOf(listCall.src.list))
  THEN TuplesOf(listCall.src.list)
  ELSE <<>>

\* the first of the fields keys that raw element e has, or nothing
FirstField(e, keys) ==
  IF \E i \in 1..Len(keys) : keys[i] \in DOMAIN e.f
  THEN Some(e.f[keys[CHOOSE i \in 1..Len(keys) :
                       /\ keys[i] \in DOMAIN e.f
                       /\ \A j \in 1..(i - 1) : keys[j] \notin DOMAIN e.f]])
  ELSE None

IsOneOrTrueValue(v) == v = JNum(1) \/ v = JBool(TRUE)

\* the channel and the name of record r are those of raw element e: the
\* channel (or Channel) field as a number, the requesting channel without
\* one; the name (or Name) field, "Preset {id}" without one
ChannelAndNameOf(e, r) ==
  LET ch == FirstField(e, <<"channel", "Channel">>)
      nm == FirstField(e, <<"name", "Name">>)
  IN /\ ch = None => r.channel = JNum(listCall.channel)
     /\ (ch # None /\ The(ch).k = "number") => r.channel = The(ch)
     /\ ch = Some(JStr("1")) => r.channel = JNum(1)
     /\ (nm # None /\ The(nm).k = "string") => r.name = The(nm).s
     /\ nm = None => r.name = "Preset " \o Decimal(r.id.n)

\* C19 as stated: enable is true when the raw enable field is absent, and
\* otherwise true exactly when the raw value is 1 or true, any other value
\* giving false; channel and name as above.
C19_EnableAsStated ==
  \A i \in 1..Len(KeptElements) :
    LET e == KeptElements[i]
        r == ListResult[i]
    IN /\ r.enable = IF "enable" \notin DOMAIN e.f THEN TRUE
                      ELSE IsOneOrTrueValue(e.f["enable"])
       /\ ChannelAndNameOf(e, r)

\* C19: for every raw element kept, enable is true when the raw enable field
\* is absent or null, and otherwise true exactly when the raw value is 1 or
\* true (0, false, "1" and 2 give false); channel is the number of the
\* element's channel field, or of its Channel field, and the requesting
\* channel when it has neither; name is the name or Name field and
\* "Preset {id}" when it has neither.
C19_Coercion ==
  \A i \in 1..Len(KeptElements) :
    LET e == KeptElements[i]
        r == ListResult[i]
    IN /\ r.enable = IF "enable" \notin DOMAIN e.f \/ e.f["enable"] = JNull THEN TRUE
                      ELSE IsOneOrTrueValue(e.f["enable"])
       /\ ChannelAndNameOf(e, r)

\* an element whose enable is null came out enabled, one whose enable is the
\* string "1" came out disabled and on the channel its string names
C19_Witness ==
  /\ ListReturned
  /\ listCall.src.kind = "enveloped"
  /\ listCall.src.shape = "PtzPreset.preset"
  /\ listCall.src.list = <<T_Null, T_Strings>>
  /\ listCall.channel = 0
  /\ KeptElements = <<T_Null, T_Strings>>
  /\ ListResult = << PtzPreset(JNum(8), "Preset 8", TRUE, JNum(0)),
                     PtzPreset(JNum(7), "Preset 7", FALSE, JNum(1)) >>

\* C20: every listPresets call issues exactly one request, the GetPtzPreset
\* read for its channel, and no write; nothing is kept from one call to the
\* next: after n calls the transport has seen n GetPtzPreset requests, the
\* instance's caches are untouched, and the list a call returns is the one
\* its own response decodes to.
C20_OneReadPerCall ==
  /\ listReqs = listN
  /\ listCall.pc # "idle" =>
       listCall.req = Some(Req("GetPtzPreset",
                               JObj([channel |-> JNum(listCall.channel)]),
                               Some(1)))
  /\ listCall.pc \in {"idle", "done", "GetPtzPreset"}
  /\ DOMAIN abilityCache = {} /\ DOMAIN aiSupportCache = {}
  /\ (ListReturned /\ listCall.pc = "done") =>
       ListResult = listPresetsAfterRead(listCall.channel, listCall.response)

\* the second call issued the second request and returned what its own
\* response holds
C20_Witness ==
  /\ listN = 2
  /\ listReqs = 2
  /\ ListReturned
  /\ listCall.channel = 0
  /\ listCall.response = Envelope("Presets", <<T_Gate>>)
  /\ ListResult = << PtzPreset(JNum(3), "Gate", FALSE, JNum(1)) >>


----------------------------------------------------------------------------
(* C21: for every GridArea with width > 0, height > 0 and bits of length   *)
(* exactly width*height, normalizeMdScope applied to the scope buildScope  *)
(* made returns an area with the same width, height and bits.              *)

\* the area handed to buildScope meets the round trip's precondition
RoundTripArea ==
  /\ codec.pc # "idle"
  /\ codec.area.width > 0
  /\ codec.area.height > 0
  /\ Len(codec.area.bits) = codec.area.width * codec.area.height

C21_GridRoundTrip ==
  RoundTripArea =>
    /\ codec.scope.ok
    /\ codec.pc = "decoded" =>
         /\ codec.decoded.ok
         /\ codec.decoded.v.width = codec.area.width
         /\ codec.decoded.v.height = codec.area.height
         /\ codec.decoded.v.bits = codec.area.bits

\* a 1x2 area has gone through both functions
C21_Witness ==
  /\ RoundTripArea
  /\ codec.pc = "decoded"
  /\ codec.area = GridArea(1, 2, "01")
  /\ codec.decoded = Ok(codec.area)


----------------------------------------------------------------------------
(* C22: every area getMdZone or getAiZone returns has a width and a height *)
(* other than 0 and bits of length width*height; when the device's scope   *)
(* has a missing or zero width or height, a bit field that is not a        *)
(* string, or a bit string of the wrong length, the call fails and returns *)
(* no area.                                                                *)

\* getMdZone or getAiZone has settled
ZoneReadSettled == top \in {"getMdZone", "getAiZone"} /\ pc = "done"

\* the device answered the read with v
ZoneReadAnswered(v) == Len(trace) >= 2 /\ trace[2].e = "ok" /\ trace[2].v = v

\* the device's answer is one of the malformed scopes
MalformedScopeRead ==
  \/ /\ top = "getMdZone"
     /\ \E i \in 1..Len(MalformedMdZoneValues) : ZoneReadAnswered(MalformedMdZoneValues[i])
  \/ /\ top = "getAiZone"
     /\ \E i \in 1..Len(MalformedAiZoneValues) : ZoneReadAnswered(MalformedAiZoneValues[i])

C22_OnlyWellFormedAreas ==
  ZoneReadSettled =>
    /\ outcome.k = "resolved" =>
         /\ outcome.v.width # 0
         /\ outcome.v.height # 0
         /\ Len(outcome.v.bits) = outcome.v.width * outcome.v.height
    /\ MalformedScopeRead =>
         /\ outcome.k = "rejected"
         /\ outcome.err.type = "Error"
         /\ outcome.err.at \in {"normalizeMdScope", "normalizeAiArea"}

\* getAiZone failed on an area one bit too long for its 1x1 grid
C22_Witness ==
  /\ ZoneReadSettled
  /\ top = "getAiZone"
  /\ ZoneReadAnswered(MalformedAiZoneValues[4])
  /\ outcome = Rejected(Err("Error", "normalizeAiArea"))


----------------------------------------------------------------------------
(* C23: when zones.masks is present applyZonesForPreset issues exactly one *)
(* SetMask request, whose enable is 1 if and only if the list is non-empty *)
(* (an empty list is written with enable 0 and an empty area list); when   *)
(* zones.masks is absent it issues no SetMask request.                     *)

\* the Mask a SetMask request for the call's channel and list carries
MaskPayload(enable) ==
  JObj([Mask |-> JObj([channel |-> JNum(call.channel),
                       enable |-> JNum(enable),
                       area |-> JArr(The(Zones.masks))])])

C23_OneMaskWrite ==
  (top = "applyZonesForPreset") =>
    IF Zones.masks = None THEN ReqIdxOf("SetMask") = {}
    ELSE /\ ReqIdxOf("SetMask") = {1}
         /\ The(Zones.masks) = <<>> => trace[1].req.payload = MaskPayload(0)
         /\ The(Zones.masks) # <<>> => trace[1].req.payload = MaskPayload(1)

\* an empty mask list was written with enable 0 and the call went on to the
\* motion zone and resolved
C23_Witness ==
  /\ top = "applyZonesForPreset"
  /\ Zones.masks = Some(<<>>)
  /\ Zones.md # None
  /\ trace[1].req.payload.f.Mask.f.enable = JNum(0)
  /\ trace[1].req.payload.f.Mask.f.area = JArr(<<>>)
  /\ outcome = Resolved


----------------------------------------------------------------------------
(* C24: gotoPresetWithZones is linear and always terminates: when every    *)
(* transport request, the settle timer and the zonesProvider call settle,  *)
(* each run ends resolved or rejected; it never goes back to a stage it    *)
(* has left; and it issues at most one PtzCtrl, one SetMask, one           *)
(* GetMdAlarm, one SetMdAlarm and one SetAlarmArea per populated AI type.  *)

\* the stage of the pipeline an event of the trace belongs to
StageOf(ev) ==
  CASE ev.e \in {"delayStart", "delayEnd"} -> 2
    [] ev.e \in {"providerCall", "providerOk", "providerFail"} -> 3
    [] ev.e = "req" ->
         (CASE ev.req.cmd = "PtzCtrl" -> 1
            [] ev.req.cmd = "SetMask" -> 4
            [] ev.req.cmd = "GetMdAlarm" -> 5
            [] ev.req.cmd = "SetMdAlarm" -> 6
            [] ev.req.cmd = "SetAlarmArea" -> 7)
    [] OTHER ->
         (CASE ev.cmd = "PtzCtrl" -> 1
            [] ev.cmd = "SetMask" -> 4
            [] ev.cmd = "GetMdAlarm" -> 5
            [] ev.cmd = "SetMdAlarm" -> 6
            [] ev.cmd = "SetAlarmArea" -> 7)

\* the SetAlarmArea requests issued so far for an AI type
AiWritesFor(type) ==
  {i \in ReqIdxOf("SetAlarmArea") : Get(trace[i].req.payload, "ai_type") = JStr(type)}

\* the provider's bundle has an area for the AI type
PopulatedType(type) ==
  /\ call.zones # None
  /\ \E i \in 1..Len(PopulatedEntries) : PopulatedEntries[i].type = type

C24_Linear ==
  (top = "gotoPresetWithZones") =>
    /\ \A i, j \in 1..Len(trace) : i < j => StageOf(trace[i]) <= StageOf(trace[j])
    /\ \A cmd \in {"PtzCtrl", "SetMask", "GetMdAlarm", "SetMdAlarm"} :
         Cardinality(ReqIdxOf(cmd)) <= 1
    /\ \A type \in AiTypes :
         Cardinality(AiWritesFor(type)) <= IF PopulatedType(type) THEN 1 ELSE 0
    /\ pc = "done" => outcome.k \in {"resolved", "rejected"}
    /\ pc # "done" => outcome = Pending

C24_LinearAndTerminates ==
  /\ []C24_Linear
  /\ (top = "gotoPresetWithZones") ~> (pc = "done")

\* a run went through every stage and wrote two AI types
C24_Witness ==
  /\ top = "gotoPresetWithZones"
  /\ pc = "done"
  /\ outcome = Resolved
  /\ \A cmd \in {"PtzCtrl", "SetMask", "GetMdAlarm", "SetMdAlarm"} :
       Cardinality(ReqIdxOf(cmd)) = 1
  /\ Len(AiWrites) = 2
  /\ \E i \in 1..Len(trace) : IsEvent(i, "delayEnd")


----------------------------------------------------------------------------
(* C25: buildPanorama rejects without any network call when plan.maxTiles  *)
(* is <= 0; for every other plan, maxTiles omitted included, it takes      *)
(* exactly one snapshot and reports tiles = 1 whatever panStep, tiltStep   *)
(* and maxTiles are.                                                       *)

\* plan.maxTiles ?? 16, as the caller gave it
MaxTilesAsked == IF call.plan.maxTiles = None THEN 16 ELSE The(call.plan.maxTiles)

C25_OneSnapshotOneTile ==
  (top = "buildPanorama") =>
    IF MaxTilesAsked <= 0
    THEN /\ trace = <<>>
         /\ outcome = Rejected(Err("Error", "buildPanorama"))
    ELSE /\ ReqIdx = {1}
         /\ trace[1].req = Req("snapshotToBuffer", JObj([channel |-> JNum(call.channel)]), None)
         /\ outcome.k = "resolved" =>
              /\ Len(trace) = 2
              /\ outcome.v = [image |-> trace[2].v, tiles |-> 1]
         /\ (pc = "done" /\ IsEvent(2, "ok")) => outcome.k = "resolved"

\* a plan of 16 tiles with steps of 30 and 15 came back as one tile
C25_Witness ==
  /\ top = "buildPanorama"
  /\ call.plan = [panStep |-> 30, tiltStep |-> 15, maxTiles |-> Some(16)]
  /\ outcome = [k |-> "resolved", v |-> [image |-> JStr("JFIF"), tiles |-> 1]]


----------------------------------------------------------------------------
(* C26: for every integer opts.speed given to gotoPreset the PtzCtrl       *)
(* request carries a speed equal to the value clamped into [1,64]: values  *)
(* below 1, 0 and negatives included, become 1 and values above 64 become  *)
(* 64; when opts.speed is not given the request carries no speed field.    *)

\* opts.speed as the caller gave it
SpeedAsked == The(call.opts.speed)

C26_SpeedClamped ==
  (top = "gotoPreset") =>
    LET payload == trace[1].req.payload
    IN /\ IsReq(1, "PtzCtrl")
       /\ call.opts.speed = None => ~HasKey(payload, "speed")
       /\ call.opts.speed # None =>
            /\ HasKey(payload, "speed")
            /\ SpeedAsked < 1 => Get(payload, "speed") = JNum(1)
            /\ SpeedAsked > 64 => Get(payload, "speed") = JNum(64)
            /\ SpeedAsked \in 1..64 => Get(payload, "speed") = JNum(SpeedAsked)

\* a speed of 0 was sent as 1
C26_Witness ==
  /\ top = "gotoPreset"
  /\ call.opts.speed = Some(0)
  /\ Get(trace[1].req.payload, "speed") = JNum(1)
  /\ outcome = Resolved


----------------------------------------------------------------------------
(* C27: getAlarm and getMdState each issue exactly one device command per  *)
(* call, GetAlarm with empty params and GetMdState with params {channel}   *)
(* for the channel passed, and return the device's value unmodified; when  *)
(* the device replies with a non-zero error code the call rejects with     *)
(* ReolinkHttpError and returns no value.                                  *)

\* the one command the call is to issue
AlarmCommand ==
  IF top = "getAlarm" THEN Req("GetAlarm", EmptyObj, None)
  ELSE Req("GetMdState", JObj([channel |-> JNum(call.channel)]), None)

C27_OneCommandValueUnmodified ==
  (top \in {"getAlarm", "getMdState"}) =>
    /\ ReqIdx = {1}
    /\ trace[1].req = AlarmCommand
    /\ Len(trace) <= 2
    /\ pc = "done" <=> Len(trace) = 2
    /\ (Len(trace) = 2 /\ IsEvent(2, "ok")) =>
         outcome = [k |-> "resolved", v |-> trace[2].v]
    /\ (Len(trace) = 2 /\ IsEvent(2, "fail")) =>
         /\ outcome = Rejected(trace[2].err)
         /\ trace[2].err.type = "ReolinkHttpError" => outcome.err.type = "ReolinkHttpError"

\* getMdState for channel 99 was rejected with the device's error
C27_Witness ==
  /\ top = "getMdState"
  /\ call.channel = 99
  /\ Get(trace[1].req.payload, "channel") = JNum(99)
  /\ outcome = Rejected(Err("ReolinkHttpError", "GetMdState"))


----------------------------------------------------------------------------
(* C28, as stated: when getSupportedAiTypes calls for one channel overlap  *)
(* on one instance, still at most one GetAbility and at most one GetAiCfg  *)
(* request are issued for that channel, and once a result has been         *)
(* returned for the channel every call returns that same list.             *)

\* call i has returned a list
Returned(i) == calls[i].pc = "done" /\ calls[i].outcome = Resolved

C28_OverlapStillMemoized ==
  /\ \A channel \in Channels :
       /\ Cardinality(CapReqsFor("GetAbility", channel)) <= 1
       /\ Cardinality(CapReqsFor("GetAiCfg", channel)) <= 1
  /\ \A i, j \in 1..Len(calls) :
       (calls[i].channel = calls[j].channel /\ Returned(i) /\ Returned(j)) =>
         calls[i].result = calls[j].result

\* the places in the log of the answers to a command asked for a channel
CapRepliesFor(cmd, channel) ==
  {n \in 1..Len(capLog) :
     capLog[n].e \in {"ok", "fail"} /\ capLog[n].cmd = cmd
       /\ calls[capLog[n].by].channel = channel}

\* C28, as the code has it: overlapping getSupportedAiTypes calls for one
\* channel each go through the lookup on their own. A call issues at most one
\* GetAbility and at most one GetAiCfg request; GetAbility is asked for a
\* channel only until the first answer for that channel has come back; a call
\* made once a list is stored issues no request; every call that goes through
\* the tiers stores its list over the one stored before, so the cache holds
\* the list of one of them and two calls may return different lists.
C28_OverlapPerCall ==
  /\ \A i \in 1..Len(calls) :
       /\ Cardinality(CapReqs("GetAbility", i)) <= 1
       /\ Cardinality(CapReqs("GetAiCfg", i)) <= 1
       /\ calls[i].viaCache => CapReqs("GetAbility", i) \cup CapReqs("GetAiCfg", i) = {}
       /\ Returned(i) => calls[i].channel \in DOMAIN aiSupportCache
  /\ \A channel \in Channels :
       /\ \A n \in CapReqsFor("GetAbility", channel), m \in CapRepliesFor("GetAbility", channel) :
            n < m
       /\ channel \in DOMAIN aiSupportCache =>
            \E i \in 1..Len(calls) :
              /\ calls[i].channel = channel
              /\ Returned(i)
              /\ ~calls[i].viaCache
              /\ calls[i].result = aiSupportCache[channel]

\* two calls for one channel overlapped, each asked GetAbility and GetAiCfg,
\* and they returned different lists
C28_Witness ==
  /\ Len(calls) = 2
  /\ calls[1].channel = calls[2].channel
  /\ Returned(1) /\ Returned(2)
  /\ Cardinality(CapReqsFor("GetAbility", calls[1].channel)) = 2
  /\ Cardinality(CapReqsFor("GetAiCfg", calls[1].channel)) = 2
  /\ calls[1].result # calls[2].result


----------------------------------------------------------------------------
(* C29: in every reachable state of an instance each channel that has an   *)
(* entry in the AI-support cache also has an entry in the ability cache,   *)
(* and entries are only ever added: no step removes a cache entry.         *)

\* every channel with a stored list has a stored ability record
AiSupportWithinAbility == DOMAIN aiSupportCache \subseteq DOMAIN abilityCache

\* a step removes no entry of either cache
NoEntryRemoved ==
  /\ DOMAIN abilityCache \subseteq DOMAIN abilityCache'
  /\ DOMAIN aiSupportCache \subseteq DOMAIN aiSupportCache'

C29_CachesOnlyGrow == []AiSupportWithinAbility /\ [][NoEntryRemoved]_vars

\* both channels have a stored list, one of them over a memoized GetAbility
\* failure
C29_Witness ==
  /\ DOMAIN aiSupportCache = Channels
  /\ DOMAIN abilityCache = Channels
  /\ \E channel \in Channels : abilityCache[channel] = EmptyObj


----------------------------------------------------------------------------
(* C30: the capability caches are isolated per channel: a                  *)
(* getSupportedAiTypes call for channel A, whether its requests succeed or *)
(* fail, neither creates nor changes the cache entries of a channel B # A, *)
(* so the first query for B still issues its own GetAbility request and a  *)
(* memoized failure for A does not suppress the lookup for B.              *)

\* the entry of a channel in a cache, as an optional value
EntryOf(cache, channel) == IF channel \in DOMAIN cache THEN Some(cache[channel]) ELSE None

\* a call for the channel takes this step: it starts, or goes on from an await
StepOfCallFor(channel) ==
  \/ /\ Len(calls') = Len(calls) + 1
     /\ calls'[Len(calls')].channel = channel
  \/ \E i \in 1..Len(calls) : calls[i].channel = channel /\ calls'[i] # calls[i]

\* a step creates or changes the entries of a channel only when it is a step
\* of a call for that channel
OtherChannelsUntouched ==
  \A channel \in Channels :
    (\/ EntryOf(abilityCache', channel) # EntryOf(abilityCache, channel)
     \/ EntryOf(aiSupportCache', channel) # EntryOf(aiSupportCache, channel))
      => StepOfCallFor(channel)

\* call i is the first made for its channel
FirstFor(i) == \A j \in 1..(i - 1) : calls[j].channel # calls[i].channel

\* the first call for a channel asks GetAbility, whatever the calls for the
\* other channels stored
FirstQueryAsks ==
  \A i \in 1..Len(calls) :
    FirstFor(i) => /\ ~calls[i].viaCache
                   /\ Cardinality(CapReqs("GetAbility", i)) = 1

C30_ChannelsIsolated == []FirstQueryAsks /\ [][OtherChannelsUntouched]_vars

\* GetAbility failed for the first channel queried and {} was stored for it;
\* the call for the other channel then asked GetAbility itself and returned a
\* list of its own
C30_Witness ==
  /\ Len(calls) >= 2
  /\ calls[1].channel # calls[2].channel
  /\ CapFailed("GetAbility", 1)
  /\ abilityCache[calls[1].channel] = EmptyObj
  /\ CapReqs("GetAbility", 2) # {}
  /\ calls[2].pc = "done"
  /\ calls[2].result # <<>>
  /\ calls[2].result # calls[1].result


----------------------------------------------------------------------------
(* C31, as stated: buildScope and normalizeMdScope agree on which grids    *)
(* are valid: every area buildScope accepts yields a scope that            *)
(* normalizeMdScope accepts, and every area normalizeMdScope's checks      *)
(* reject (zero width or height, length mismatch) buildScope rejects too.  *)

\* buildScope returned a scope and normalizeMdScope was applied to it
ScopeDecoded == codec.pc = "decoded" /\ codec.scope.ok

C31_CodecsAgree == ScopeDecoded => codec.decoded.ok

\* C31, as the code has it: buildScope accepts an area exactly when its bits
\* are width*height long, a width or height of 0 (with no bits) included;
\* normalizeMdScope accepts the scope buildScope made exactly when, besides,
\* neither width nor height is 0. The two agree on the areas whose width and
\* height are not 0, and there the decoded area is the one encoded.
C31_AgreeOffZero ==
  /\ codec.pc # "idle" =>
       (codec.scope.ok <=> Len(codec.area.bits) = codec.area.width * codec.area.height)
  /\ ScopeDecoded =>
       /\ codec.decoded.ok <=> (codec.area.width # 0 /\ codec.area.height # 0)
       /\ codec.decoded.ok => codec.decoded.v = codec.area

\* buildScope accepted a grid of width 0 and height 2 with no bits, and
\* normalizeMdScope refused the scope it made
C31_Witness ==
  /\ ScopeDecoded
  /\ codec.area = GridArea(0, 2, "")
  /\ Get(codec.scope.v, "cols") = JNum(0)
  /\ codec.decoded = Fail(Err("Error", "normalizeMdScope"))


----------------------------------------------------------------------------
(* C32: only getSupportedAiTypes reads or writes the capability and        *)
(* AI-support caches and only it issues GetAbility or GetAiCfg: the other  *)
(* methods (listPresets, setPreset, gotoPreset, setMasks, setMdZone,       *)
(* setAiZone, applyZonesForPreset, gotoPresetWithZones among them) leave   *)
(* both caches unchanged whether they succeed or fail, and                 *)
(* applyZonesForPreset writes an AI zone for every populated type whatever *)
(* list of supported types is stored for the channel.                      *)

\* a step of a method other than getSupportedAiTypes
OtherMethodStep == presetVars' # presetVars \/ listVars' # listVars

\* such a step leaves the caches, and what the lookups asked, as they were
CachesUntouched == OtherMethodStep => UNCHANGED capVars

\* no other method asks GetAbility or GetAiCfg
NoLookupElsewhere ==
  \A i \in ReqIdx : trace[i].req.cmd \notin {"GetAbility", "GetAiCfg"}

\* nothing stops the zone writes: every area is well sized and no request
\* failed with a hard error
NothingStopsZones ==
  /\ Zones.md # None => WellSized(The(Zones.md))
  /\ \A i \in 1..Len(PopulatedEntries) : WellSized(The(PopulatedEntries[i].area))
  /\ \A i \in 1..Len(trace) : ~IsHardFailure(trace[i])

\* applyZonesForPreset, once done, has written every populated type
AllPopulatedWritten ==
  (ApplyingZones /\ pc = "done" /\ NothingStopsZones) =>
    /\ outcome = Resolved
    /\ Len(AiWrites) = Len(PopulatedEntries)
    /\ \A i \in 1..Len(AiWrites) :
         Get(AiWrites[i].req.payload, "ai_type") = JStr(PopulatedEntries[i].type)

\* what holds of the other methods in every state
NoCacheConsulted == NoLookupElsewhere /\ AllPopulatedWritten

====
